---- MODULE Spec2Model ----
(***************************************************************************)
(* ChaChaRng (src/index.ts, first definition, lines 1-372): the ChaCha     *)
(* block generator, the buffered word stream built on it and the position  *)
(* arithmetic of getWordPos / setWordPos / setStream / clone.              *)
(*                                                                         *)
(* Number representation.  A Uint32Array element is a pair <<lo, hi>> of   *)
(* 16-bit limbs (value lo + 65536*hi); a bigint is a little-endian         *)
(* sequence of 16-bit limbs without trailing zero limbs.  All widths are   *)
(* the widths of the program: 32-bit words, a 64-bit block counter and a   *)
(* 68-bit word position.                                                   *)
(*                                                                         *)
(* Storage.  Typed arrays live in a heap (a sequence of arrays); objects   *)
(* hold array ids, so that two generators sharing an array is a state the  *)
(* model can be in.                                                        *)
(***************************************************************************)
EXTENDS Integers, Sequences, FiniteSets, TLC

BLOCK_WORDS == 16
BUF_BLOCKS == 4
BUF_WORDS == BLOCK_WORDS * BUF_BLOCKS
STATE_WORDS == 16

\* radix of one limb
B16 == 65536

---------------------------------------------------------------------------
(* 32-bit words *)

\* x ^ y on 4-bit values: Xor4[x + 1][y + 1]
Xor4 ==
 << <<0, 1, 2, 3, 4, 5, 6, 7, 8, 9, 10, 11, 12, 13, 14, 15>>,
   <<1, 0, 3, 2, 5, 4, 7, 6, 9, 8, 11, 10, 13, 12, 15, 14>>,
   <<2, 3, 0, 1, 6, 7, 4, 5, 10, 11, 8, 9, 14, 15, 12, 13>>,
   <<3, 2, 1, 0, 7, 6, 5, 4, 11, 10, 9, 8, 15, 14, 13, 12>>,
   <<4, 5, 6, 7, 0, 1, 2, 3, 12, 13, 14, 15, 8, 9, 10, 11>>,
   <<5, 4, 7, 6, 1, 0, 3, 2, 13, 12, 15, 14, 9, 8, 11, 10>>,
   <<6, 7, 4, 5, 2, 3, 0, 1, 14, 15, 12, 13, 10, 11, 8, 9>>,
   <<7, 6, 5, 4, 3, 2, 1, 0, 15, 14, 13, 12, 11, 10, 9, 8>>,
   <<8, 9, 10, 11, 12, 13, 14, 15, 0, 1, 2, 3, 4, 5, 6, 7>>,
   <<9, 8, 11, 10, 13, 12, 15, 14, 1, 0, 3, 2, 5, 4, 7, 6>>,
   <<10, 11, 8, 9, 14, 15, 12, 13, 2, 3, 0, 1, 6, 7, 4, 5>>,
   <<11, 10, 9, 8, 15, 14, 13, 12, 3, 2, 1, 0, 7, 6, 5, 4>>,
   <<12, 13, 14, 15, 8, 9, 10, 11, 4, 5, 6, 7, 0, 1, 2, 3>>,
   <<13, 12, 15, 14, 9, 8, 11, 10, 5, 4, 7, 6, 1, 0, 3, 2>>,
   <<14, 15, 12, 13, 10, 11, 8, 9, 6, 7, 4, 5, 2, 3, 0, 1>>,
   <<15, 14, 13, 12, 11, 10, 9, 8, 7, 6, 5, 4, 3, 2, 1, 0>> >>

\* x ^ y on 16-bit limbs, nibble by nibble
Xor16(x, y) ==
    Xor4[(x % 16) + 1][(y % 16) + 1]
    + 16 * Xor4[((x \div 16) % 16) + 1][((y \div 16) % 16) + 1]
    + 256 * Xor4[((x \div 256) % 16) + 1][((y \div 256) % 16) + 1]
    + 4096 * Xor4[(x \div 4096) + 1][(y \div 4096) + 1]

\* a ^ b on 32-bit words
Xor32(a, b) == <<Xor16(a[1], b[1]), Xor16(a[2], b[2])>>

\* (a + b) >>> 0
Add32(a, b) ==
    LET lo == a[1] + b[1]
    IN <<lo % B16, (a[2] + b[2] + (lo \div B16)) % B16>>

W0 == <<0, 0>>
W1 == <<1, 0>>

\* ((x >>> n) | (x << (32 - n))) >>> 0, for 0 < n < 32
rotr32(x, n) ==
    LET w == IF n >= 16 THEN <<x[2], x[1]>> ELSE x
        k == n % 16
        p == 2 ^ k
        q == B16 \div p
    IN IF k = 0 THEN w
       ELSE << (w[1] \div p) + (w[2] % p) * q, (w[2] \div p) + (w[1] % p) * q >>

\* DataView.getUint32(off, true) on a byte sequence (0-based offset)
getUint32LE(bytes, off) ==
    << bytes[off + 1] + 256 * bytes[off + 2], bytes[off + 3] + 256 * bytes[off + 4] >>

\* the four bytes of a word, most significant first
WordBytes_bigEndian(w) == << w[2] \div 256, w[2] % 256, w[1] \div 256, w[1] % 256 >>

\* the four bytes of a word in memory order (little-endian view)
WordBytes(w) == << w[1] % 256, w[1] \div 256, w[2] % 256, w[2] \div 256 >>

---------------------------------------------------------------------------
(* bigint: little-endian sequences of 16-bit limbs, no trailing zeros *)

RECURSIVE Norm(_)
Norm(s) ==
    IF s = <<>> THEN s
    ELSE IF s[Len(s)] = 0 THEN Norm(SubSeq(s, 1, Len(s) - 1)) ELSE s

Limb(a, i) == IF i <= Len(a) THEN a[i] ELSE 0

\* BigInt(n) for a small non-negative number n
BigOfNat(n) == Norm(<<n % B16, n \div B16>>)

\* BigInt(w) for a Uint32Array element
BigOfWord(w) == Norm(w)

RECURSIVE AddLimbs(_, _, _, _)
AddLimbs(a, b, i, carry) ==
    IF i > Len(a) /\ i > Len(b)
    THEN (IF carry = 0 THEN <<>> ELSE <<carry>>)
    ELSE LET t == Limb(a, i) + Limb(b, i) + carry
         IN <<t % B16>> \o AddLimbs(a, b, i + 1, t \div B16)

\* a + b
BigAdd(a, b) == Norm(AddLimbs(a, b, 1, 0))

RECURSIVE MulLimbs(_, _, _, _)
MulLimbs(a, k, i, carry) ==
    IF i > Len(a)
    THEN (IF carry = 0 THEN <<>> ELSE <<carry>>)
    ELSE LET t == a[i] * k + carry
         IN <<t % B16>> \o MulLimbs(a, k, i + 1, t \div B16)

\* a * BigInt(k), 0 <= k <= 16384
BigMulSmall(a, k) == Norm(MulLimbs(a, k, 1, 0))

RECURSIVE DivLimbs(_, _, _, _)
DivLimbs(a, k, i, rem) ==
    IF i = 0 THEN [q |-> <<>>, r |-> rem]
    ELSE LET t == rem * B16 + a[i]
             rest == DivLimbs(a, k, i - 1, t % k)
         IN [q |-> rest.q \o <<t \div k>>, r |-> rest.r]

\* a / BigInt(k) (truncating) for a >= 0, 0 < k <= 16384
BigDivSmall(a, k) == Norm(DivLimbs(a, k, Len(a), 0).q)

\* Number(a % BigInt(k)) for a >= 0, 0 < k <= 16384
BigModSmall(a, k) == DivLimbs(a, k, Len(a), 0).r

\* a & U64_MASK for a >= 0
And64(a) == Norm([i \in 1..4 |-> Limb(a, i)])

\* a & U32_MASK for a >= 0, as a Uint32Array element
Low32(a) == <<Limb(a, 1), Limb(a, 2)>>

\* a >> 32n
Shr32(a) == IF Len(a) <= 2 THEN <<>> ELSE SubSeq(a, 3, Len(a))

\* (a - BigInt(k)) & U64_MASK for 0 <= a < 2^64 and 0 < k < 65536: the
\* two's-complement result of the (possibly negative) difference
SubSmallAnd64(a, k) ==
    And64(BigAdd(a, <<B16 - k, B16 - 1, B16 - 1, B16 - 1>>))

\* 2^68 and reduction modulo 2^68
Mod68(a) == Norm([i \in 1..5 |-> IF i = 5 THEN Limb(a, 5) % 16 ELSE Limb(a, i)])

\* a < b, from limb i down
RECURSIVE LessLimbs(_, _, _)
LessLimbs(a, b, i) ==
    IF i = 0 THEN FALSE
    ELSE IF a[i] # b[i] THEN a[i] < b[i]
    ELSE LessLimbs(a, b, i - 1)

\* a < b for a, b >= 0
BigLess(a, b) ==
    IF Len(a) # Len(b) THEN Len(a) < Len(b) ELSE LessLimbs(a, b, Len(a))

RECURSIVE SubLimbs(_, _, _, _)
SubLimbs(a, b, i, borrow) ==
    IF i > Len(a) THEN <<>>
    ELSE LET t == a[i] - Limb(b, i) - borrow
         IN <<(t + B16) % B16>> \o SubLimbs(a, b, i + 1, IF t < 0 THEN 1 ELSE 0)

\* a - b for a >= b >= 0
BigSub(a, b) == Norm(SubLimbs(a, b, 1, 0))

\* a * BigInt(k) for one limb 0 <= k < 65536, by its two bytes
BigMulLimb(a, k) ==
    BigAdd(BigMulSmall(a, k % 256), BigMulSmall(BigMulSmall(a, k \div 256), 256))

\* a * b, from limb j of b on
RECURSIVE MulFrom(_, _, _)
MulFrom(a, b, j) ==
    IF j > Len(b) THEN <<>>
    ELSE BigAdd(BigMulLimb(a, b[j]),
                LET rest == MulFrom(a, b, j + 1)
                IN IF rest = <<>> THEN <<>> ELSE <<0>> \o rest)

\* a * b for a, b >= 0
BigMul(a, b) == MulFrom(a, b, 1)

\* a >> 64n
Shr64(a) == IF Len(a) <= 4 THEN <<>> ELSE SubSeq(a, 5, Len(a))

\* 1n << 64n
TwoTo64 == <<0, 0, 0, 0, 1>>

\* the number a bigint below 2^31 stands for
NatOfBig(a) == Limb(a, 1) + B16 * Limb(a, 2)

---------------------------------------------------------------------------
(* heap of typed arrays *)

\* new Uint32Array(...) / slice(): the id of the array allocated next
NewId(H) == Len(H) + 1
Alloc(H, arr) == Append(H, arr)

Zeros(n) == [i \in 1..n |-> W0]

---------------------------------------------------------------------------
(* class ChaChaCore.  A core object is [state |-> array id, rounds |-> n]. *)

ErrSeed == "Seed must be 32 bytes"
ErrNonce == "Nonce must be 8 or 12 bytes"

\* the constructor with every nonce of 8 bytes or more let through
ChaChaCore_new_longNonce(H, seed, nonce, rounds) ==
    IF Len(seed) # 32 THEN [threw |-> ErrSeed, heap |-> H]
    ELSE IF Len(nonce) < 8 THEN [threw |-> ErrNonce, heap |-> H]
    ELSE
      LET consts == << <<30821, 24944>>, <<25710, 13088>>,
                       <<11570, 31074>>, <<25972, 27424>> >>
          key == [i \in 1..8 |-> getUint32LE(seed, (i - 1) * 4)]
          tail == IF Len(nonce) = 12
                  THEN << W0, getUint32LE(nonce, 0),
                          getUint32LE(nonce, 4), getUint32LE(nonce, 8) >>
                  ELSE << W0, W0, getUint32LE(nonce, 0), getUint32LE(nonce, 4) >>
      IN [threw |-> "", heap |-> Alloc(H, consts \o key \o tail),
          core |-> [state |-> NewId(H), rounds |-> rounds \div 2]]

\* the constructor: [threw, heap, core]
ChaChaCore_new(H, seed, nonce, rounds) ==
    IF Len(seed) # 32 THEN [threw |-> ErrSeed, heap |-> H]
    ELSE IF Len(nonce) # 8 /\ Len(nonce) # 12 THEN [threw |-> ErrNonce, heap |-> H]
    ELSE
      LET consts == << <<30821, 24944>>, <<25710, 13088>>,
                       <<11570, 31074>>, <<25972, 27424>> >>
          key == [i \in 1..8 |-> getUint32LE(seed, (i - 1) * 4)]
          tail == IF Len(nonce) = 12
                  THEN << W0, getUint32LE(nonce, 0),
                          getUint32LE(nonce, 4), getUint32LE(nonce, 8) >>
                  ELSE << W0, W0, getUint32LE(nonce, 0), getUint32LE(nonce, 4) >>
      IN [threw |-> "", heap |-> Alloc(H, consts \o key \o tail),
          core |-> [state |-> NewId(H), rounds |-> rounds \div 2]]

\* two lines of quarterRound on the words v = <<a, b, c, d>>:
\*   a = (a + b) >>> 0; d = rotr32(d ^ a, n1);
\*   c = (c + d) >>> 0; b = rotr32(b ^ c, n2)
quarterRoundHalf(v, n1, n2) ==
    LET a1 == Add32(v[1], v[2])
        d1 == rotr32(Xor32(v[4], a1), n1)
        c1 == Add32(v[3], d1)
    IN <<a1, rotr32(Xor32(v[2], c1), n2), c1, d1>>

\* the four words of state at a, b, c, d written back
quarterRoundStore(state, a, b, c, d, v) ==
    [state EXCEPT ![a + 1] = v[1], ![b + 1] = v[2], ![c + 1] = v[3], ![d + 1] = v[4]]

quarterRound(state, a, b, c, d) ==
    quarterRoundStore(state, a, b, c, d,
        quarterRoundHalf(
            quarterRoundHalf(<<state[a + 1], state[b + 1], state[c + 1], state[d + 1]>>,
                             16, 20),
            24, 25))

\* the index arguments of the eight quarterRound calls of coreRound, in order
coreRoundCalls ==
    << <<0, 4, 8, 12>>, <<1, 5, 9, 13>>, <<2, 6, 10, 14>>, <<3, 7, 11, 15>>,
       <<0, 5, 10, 15>>, <<1, 6, 11, 12>>, <<2, 7, 8, 13>>, <<3, 4, 9, 14>> >>

\* the calls of coreRound from the l.i-th on, applied to l.state
RECURSIVE coreRoundFrom(_)
coreRoundFrom(l) ==
    IF l.i > Len(coreRoundCalls) THEN l.state
    ELSE coreRoundFrom(
             [state |-> quarterRound(l.state, coreRoundCalls[l.i][1], coreRoundCalls[l.i][2],
                                     coreRoundCalls[l.i][3], coreRoundCalls[l.i][4]),
              i |-> l.i + 1])

coreRound(state) == coreRoundFrom([state |-> state, i |-> 1])

\* for (let i = 0; i < this.rounds; i++) this.coreRound(workingState),
\* from loop state l = [workingState, i]
RECURSIVE roundsLoop(_, _)
roundsLoop(l, rounds) ==
    IF ~(l.i < rounds) THEN l.workingState
    ELSE roundsLoop([workingState |-> coreRound(l.workingState), i |-> l.i + 1], rounds)

applyRounds(blockInputState, rounds) ==
    roundsLoop([workingState |-> blockInputState, i |-> 0], rounds)

\* the output block without the input state added back
addStates_omitted(workingState, blockInputState) == workingState

\* (workingState[i] + blockInputState[i]) >>> 0 for i in 0..15
addStates(workingState, blockInputState) ==
    [i \in 1..STATE_WORDS |-> Add32(workingState[i], blockInputState[i])]

\* one pass of the block loop of generate: the 16 output words of the block
\* whose input state is blockInputState
blockOutput(blockInputState, rounds) ==
    addStates(applyRounds(blockInputState, rounds), blockInputState)

\* mutant: the low counter word wraps without carrying into the high word
incrementCounter_noCarry(blockInputState) ==
    [blockInputState EXCEPT ![12 + 1] = Add32(blockInputState[12 + 1], W1)]

\* the increment carrying when the low word was 0 before it
incrementCounter_carryOnOld(blockInputState) ==
    LET w12 == Add32(blockInputState[12 + 1], W1)
        w13 == IF blockInputState[12 + 1] = W0 THEN Add32(blockInputState[13 + 1], W1)
               ELSE blockInputState[13 + 1]
    IN [blockInputState EXCEPT ![12 + 1] = w12, ![13 + 1] = w13]

\* the counter increment at the end of one pass of the block loop
incrementCounter(blockInputState) ==
    LET w12 == Add32(blockInputState[12 + 1], W1)
        w13 == IF w12 = W0 THEN Add32(blockInputState[13 + 1], W1)
               ELSE blockInputState[13 + 1]
    IN [blockInputState EXCEPT ![12 + 1] = w12, ![13 + 1] = w13]

\* results[offset + i] = out[i] for the 16 words of one block
writeBlock(results, offset, out) ==
    SubSeq(results, 1, offset) \o out
    \o SubSeq(results, offset + STATE_WORDS + 1, Len(results))

\* the block loop of generate from loop state l = [block, blockInputState, results]
RECURSIVE generateLoop(_, _)
generateLoop(l, rounds) ==
    IF ~(l.block < BUF_BLOCKS) THEN l
    ELSE generateLoop(
             [block |-> l.block + 1,
              blockInputState |-> incrementCounter(l.blockInputState),
              results |-> writeBlock(l.results, l.block * BLOCK_WORDS,
                                     blockOutput(l.blockInputState, rounds))],
             rounds)

\* the stores after the block loop: the results array, and the counter words
\* copied back into this.state
\* generateStore that writes the counter back one word too high
generateStore_oneWordHigh(H, core, results, r) ==
    [H EXCEPT ![results] = r.results,
              ![core.state][13 + 1] = r.blockInputState[12 + 1],
              ![core.state][14 + 1] = r.blockInputState[13 + 1]]

generateStore(H, core, results, r) ==
    [H EXCEPT ![results] = r.results,
              ![core.state][12 + 1] = r.blockInputState[12 + 1],
              ![core.state][13 + 1] = r.blockInputState[13 + 1]]

\* generate(results): [threw, heap]
generate(H, core, results) ==
    IF Len(H[results]) # BUF_WORDS THEN [threw |-> TRUE, heap |-> H]
    ELSE [threw |-> FALSE,
          heap |-> generateStore(H, core, results,
                       generateLoop([block |-> 0, blockInputState |-> H[core.state],
                                     results |-> H[results]], core.rounds))]

getBlockPos(H, core) ==
    LET low == H[core.state][12 + 1]
        high == H[core.state][13 + 1]
    IN Norm(low \o high)

\* setBlockPos that writes one word too low (words 11 and 12)
setBlockPos_oneWordLow(H, core, value) ==
    [H EXCEPT ![core.state][11 + 1] = Low32(value),
              ![core.state][12 + 1] = Low32(Shr32(value))]

setBlockPos(H, core, value) ==
    [H EXCEPT ![core.state][12 + 1] = Low32(value),
              ![core.state][13 + 1] = Low32(Shr32(value))]

\* getNonce with the two words of the stream id exchanged
getNonce_wordsSwapped(H, core) ==
    LET low == H[core.state][15 + 1]
        high == H[core.state][14 + 1]
    IN Norm(low \o high)

getNonce(H, core) ==
    LET low == H[core.state][14 + 1]
        high == H[core.state][15 + 1]
    IN Norm(low \o high)

setNonce(H, core, value) ==
    [H EXCEPT ![core.state][14 + 1] = Low32(value),
              ![core.state][15 + 1] = Low32(Shr32(value))]

\* the 32 seed bytes read back from state words 4..11
ChaChaCore_getSeed(H, core) ==
    [j \in 1..32 |-> WordBytes(H[core.state][4 + ((j - 1) \div 4) + 1])[((j - 1) % 4) + 1]]

\* ChaChaCore.clone that hands out the state array itself, not a copy
ChaChaCore_clone_shared(H, core) == [heap |-> H, core |-> core]

\* [heap, core]
ChaChaCore_clone(H, core) ==
    [heap |-> Alloc(H, H[core.state]),
     core |-> [state |-> NewId(H), rounds |-> core.rounds]]

---------------------------------------------------------------------------
(* class ChaChaRng.  A generator object is                                 *)
(* [core |-> core object, buffer |-> array id, index |-> n, rounds |-> r]. *)
(* Every method is an operator from (heap, generator, arguments) to        *)
(* [heap, rng, val]: the heap and the object after the call and the value  *)
(* returned.                                                               *)

NoVal == "undefined"

\* the private constructor with the cursor at the start of the buffer
ChaChaRng_new_indexZero(H, core, rounds) ==
    [heap |-> Alloc(H, Zeros(BUF_WORDS)),
     rng |-> [core |-> core, buffer |-> NewId(H), index |-> 0, rounds |-> rounds]]

\* the private constructor
ChaChaRng_new(H, core, rounds) ==
    [heap |-> Alloc(H, Zeros(BUF_WORDS)),
     rng |-> [core |-> core, buffer |-> NewId(H), index |-> BUF_WORDS, rounds |-> rounds]]

\* static fromSeed: [threw, heap, rng]
fromSeed(H, seed, rounds) ==
    LET defaultNonce == [i \in 1..8 |-> 0]
        c == ChaChaCore_new(H, seed, defaultNonce, rounds)
    IN IF c.threw # "" THEN c
       ELSE LET r == ChaChaRng_new(c.heap, c.core, rounds)
            IN [threw |-> "", heap |-> r.heap, rng |-> r.rng]

refill(H, rng) ==
    [heap |-> generate(H, rng.core, rng.buffer).heap,
     rng |-> [rng EXCEPT !.index = 0]]

\* refillIfEmpty that refills one word early
refillIfEmpty_oneEarly(H, rng) ==
    IF rng.index >= BUF_WORDS - 1 THEN refill(H, rng) ELSE [heap |-> H, rng |-> rng]

\* refillIfEmpty that refills past the end only: index > BUF_WORDS
refillIfEmpty_pastEnd(H, rng) ==
    IF rng.index > BUF_WORDS THEN refill(H, rng) ELSE [heap |-> H, rng |-> rng]

\* if (this.index >= BUF_WORDS) this.refill()
refillIfEmpty(H, rng) ==
    IF rng.index >= BUF_WORDS THEN refill(H, rng) ELSE [heap |-> H, rng |-> rng]

\* const val = this.buffer[this.index]; this.index++; return val
readWord(s) ==
    [heap |-> s.heap,
     rng |-> [s.rng EXCEPT !.index = s.rng.index + 1],
     val |-> s.heap[s.rng.buffer][s.rng.index + 1]]

nextU32(H, rng) == readWord(refillIfEmpty(H, rng))

\* joinU64 with the first word taken for the high half
joinU64_firstHigh(low, high) ==
    [heap |-> high.heap, rng |-> high.rng, val |-> Norm(high.val \o low.val)]

\* (high << 32n) | low, with the generator left by the second nextU32()
joinU64(low, high) ==
    [heap |-> high.heap, rng |-> high.rng, val |-> Norm(low.val \o high.val)]

\* the second nextU32() of nextU64, after the first returned low
nextU64High(low) == joinU64(low, nextU32(low.heap, low.rng))

nextU64(H, rng) == nextU64High(nextU32(H, rng))

\* the bytes of the buffer from word index i on (0-based), in memory order
RECURSIVE bufferBytes(_, _, _)
bufferBytes(buf, i, n) ==
    IF n <= 0 THEN <<>>
    ELSE SubSeq(WordBytes(buf[i + 1]), 1, IF n < 4 THEN n ELSE 4)
         \o bufferBytes(buf, i + 1, n - 4)

Min(a, b) == IF a < b THEN a ELSE b
Max(a, b) == IF a > b THEN a ELSE b

\* fillBytesCopy that counts whole words only (floor for Math.ceil)
fillBytesCopy_wholeWords(s, len, bytes) ==
    LET offset == Len(bytes)
        bufferRemainingWords == BUF_WORDS - s.rng.index
        bufferRemainingBytes == bufferRemainingWords * 4
        bytesToCopy == Min(len - offset, bufferRemainingBytes)
        wordsCopied == bytesToCopy \div 4
    IN [heap |-> s.heap,
        rng |-> [s.rng EXCEPT !.index = s.rng.index + wordsCopied],
        val |-> bytes \o bufferBytes(s.heap[s.rng.buffer], s.rng.index, bytesToCopy)]

\* one pass of the while loop of fillBytes, after the refill check left s
fillBytesCopy(s, len, bytes) ==
    LET offset == Len(bytes)
        bufferRemainingWords == BUF_WORDS - s.rng.index
        bufferRemainingBytes == bufferRemainingWords * 4
        bytesToCopy == Min(len - offset, bufferRemainingBytes)
        wordsCopied == (bytesToCopy + 3) \div 4
    IN [heap |-> s.heap,
        rng |-> [s.rng EXCEPT !.index = s.rng.index + wordsCopied],
        val |-> bytes \o bufferBytes(s.heap[s.rng.buffer], s.rng.index, bytesToCopy)]

\* the while loop of fillBytes; s.val is the output written so far
RECURSIVE fillBytesLoop(_, _)
fillBytesLoop(s, len) ==
    IF ~(Len(s.val) < len) THEN s
    ELSE fillBytesLoop(fillBytesCopy(refillIfEmpty(s.heap, s.rng), len, s.val), len)

\* fillBytes on a fresh array of len bytes; val is the array afterwards
fillBytes(H, rng, len) == fillBytesLoop([heap |-> H, rng |-> rng, val |-> <<>>], len)

\* --- Range Generation Methods: every one is an operator to
\* [threw, heap, rng, val], threw the message of the Error or ""

U64_MASK == <<65535, 65535, 65535, 65535>>

ErrRangeExclusive == "Upper bound must be strictly greater than lower bound for exclusive range"
ErrRangeInclusive == "Upper bound must be greater than or equal to lower bound for inclusive range"
ErrLowHigh == "Low must be less than high for exclusive range"
ErrFinite == "Range bounds must be finite"

\* a throw that comes after a word was drawn
throws_afterDraw(H, rng, msg) ==
    [threw |-> msg, heap |-> nextU32(H, rng).heap, rng |-> nextU32(H, rng).rng,
     val |-> NoVal]

\* throw new Error(msg)
throws(H, rng, msg) == [threw |-> msg, heap |-> H, rng |-> rng, val |-> NoVal]

\* return v, with the generator as the draws s left it
returns(s, v) == [threw |-> "", heap |-> s.heap, rng |-> s.rng, val |-> v]

\* 64x64 -> 128 bit multiplication
wmul64(a, b) == [hi |-> Shr64(BigMul(a, b)), lo |-> And64(BigMul(a, b))]

\* the bias reduction step: m is the first product, d2 the second nextU64()
biasReduced(m, d2, rangeSize) ==
    LET newHiOrder == wmul64(d2.val, rangeSize).hi
        checkAdd == BigAdd(m.lo, newHiOrder)
        isOverflow == BigLess(U64_MASK, checkAdd)
    IN returns(d2, IF isOverflow THEN And64(BigAdd(m.hi, <<1>>)) ELSE m.hi)

\* the bias reduction check taken from the threshold on: resultLo >= negRange
biasChecked_atThreshold(m, d1, rangeSize) ==
    LET negRange == And64(BigSub(TwoTo64, rangeSize))
    IN IF ~BigLess(m.lo, negRange)
       THEN biasReduced(m, nextU64(d1.heap, d1.rng), rangeSize)
       ELSE returns(d1, m.hi)

\* the bias reduction check against ~rangeSize, the negation less one
biasChecked_onesComplement(m, d1, rangeSize) ==
    LET negRange == BigSub(U64_MASK, rangeSize)
    IN IF BigLess(negRange, m.lo)
       THEN biasReduced(m, nextU64(d1.heap, d1.rng), rangeSize)
       ELSE returns(d1, m.hi)

\* the bias reduction check, m the product of the first draw d1
biasChecked(m, d1, rangeSize) ==
    LET negRange == And64(BigSub(TwoTo64, rangeSize))
    IN IF BigLess(negRange, m.lo)
       THEN biasReduced(m, nextU64(d1.heap, d1.rng), rangeSize)
       ELSE returns(d1, m.hi)

\* Canon's method on the first draw d1; val is finalResult
sampleU64(d1, rangeSize) == biasChecked(wmul64(d1.val, rangeSize), d1, rangeSize)

\* return (low + finalResult) & U64_MASK
addLow(low, s) == returns(s, And64(BigAdd(low, s.val)))

\* return this.nextU64()
returnsDraw(d) == returns(d, d.val)

\* genRangeU64 that samples the exclusive range up to high itself
genRangeU64_highIncluded(H, rng, low, high, inclusive) ==
    IF ~inclusive /\ ~BigLess(low, high) THEN throws(H, rng, ErrRangeExclusive)
    ELSE IF inclusive /\ BigLess(high, low) THEN throws(H, rng, ErrRangeInclusive)
    ELSE LET effectiveHigh == high
             rangeSize == And64(BigAdd(BigSub(effectiveHigh, low), <<1>>))
         IN IF rangeSize = <<>> THEN returnsDraw(nextU64(H, rng))
            ELSE addLow(low, sampleU64(nextU64(H, rng), rangeSize))

\* genRangeU64 for bigints low, high >= 0
genRangeU64(H, rng, low, high, inclusive) ==
    IF ~inclusive /\ ~BigLess(low, high) THEN throws(H, rng, ErrRangeExclusive)
    ELSE IF inclusive /\ BigLess(high, low) THEN throws(H, rng, ErrRangeInclusive)
    ELSE LET effectiveHigh == IF inclusive THEN high ELSE BigSub(high, <<1>>)
             rangeSize == And64(BigAdd(BigSub(effectiveHigh, low), <<1>>))
         IN IF rangeSize = <<>> THEN returnsDraw(nextU64(H, rng))
            ELSE addLow(low, sampleU64(nextU64(H, rng), rangeSize))

\* (range_u32 & (range_u32 - 1)) === 0 for 0 < range_u32 < 2^31
IsPowerOfTwo(n) == \E k \in 0..30 : n = 2^k

\* the limit without the remainder taken off: 0xFFFFFFFF
rangeLimitOf_noRemainder(range_u32) == <<65535, 65535>>

\* 0xFFFFFFFF - (0xFFFFFFFF % range_u32)
rangeLimitOf(range_u32) ==
    BigSub(<<65535, 65535>>, BigOfNat(BigModSmall(<<65535, 65535>>, range_u32)))

\* do { x = this.nextU32() } while (x >= rangeLimit); s is the last draw
RECURSIVE drawBelow(_, _)
drawBelow(s, rangeLimit) ==
    IF BigLess(BigOfWord(s.val), rangeLimit) THEN s
    ELSE drawBelow(nextU32(s.heap, s.rng), rangeLimit)

\* (low + n) >>> 0 with the generator as the draw s left it
returnsOffset(s, low, n) == returns(s, Low32(BigAdd(BigOfNat(low), BigOfNat(n))))

\* low + (x & mask) and low + (x % range_u32), x the word drawn by s
offsetOf(s, low, range_u32) ==
    returnsOffset(s, low, BigModSmall(BigOfWord(s.val), range_u32))

\* genRangeU32 for integers 0 <= low, high with high - low <= 16384
genRangeU32(H, rng, low, high) ==
    IF ~(low < high) THEN throws(H, rng, ErrLowHigh)
    ELSE LET range == high - low
             range_u32 == range
         IN IF range = 0 THEN returns([heap |-> H, rng |-> rng], Low32(BigOfNat(low)))
            ELSE IF IsPowerOfTwo(range_u32)
                 THEN offsetOf(nextU32(H, rng), low, range_u32)
                 ELSE offsetOf(drawBelow(nextU32(H, rng), rangeLimitOf(range_u32)),
                               low, range_u32)

\* return low + u, u what genRangeU32 or genRangeU64 returned
plusLow(low, u) ==
    IF u.threw # "" THEN u ELSE returns(u, low + NatOfBig(BigOfWord(u.val)))

\* genRangeI32 for integers low, high with high - low <= 16384
genRangeI32(H, rng, low, high) ==
    IF ~(low < high) THEN throws(H, rng, ErrLowHigh)
    ELSE LET range == high - low
             range_u32 == range
         IN IF range <= 0 THEN returns([heap |-> H, rng |-> rng], low)
            ELSE plusLow(low, genRangeU32(H, rng, 0, range_u32))

\* genRangeI64 for bigints low, high of small magnitude, held as integers
genRangeI64(H, rng, low, high) ==
    IF ~(low < high) THEN throws(H, rng, ErrLowHigh)
    ELSE LET range == high - low
         IN IF range <= 0 THEN returns([heap |-> H, rng |-> rng], low)
            ELSE plusLow(low, genRangeU64(H, rng, <<>>, BigOfNat(range - 1), TRUE))

\* a JavaScript number: NaN, an infinity or an integer v
NaN == [kind |-> "NaN"]
PosInf == [kind |-> "Infinity", sign |-> 1]
NegInf == [kind |-> "Infinity", sign |-> -1]
Num(v) == [kind |-> "finite", v |-> v]

\* Number.isFinite(x)
IsFinite(x) == x.kind = "finite"

\* a < b on numbers
NumLess(a, b) ==
    IF a.kind = "NaN" \/ b.kind = "NaN" THEN FALSE
    ELSE IF a.kind = "Infinity" THEN a.sign = -1 /\ b # a
    ELSE IF b.kind = "Infinity" THEN b.sign = 1
    ELSE a.v < b.v

\* low + scale * (high - low), scale = random53bit / 2^53, kept as the
\* exact terms of the expression
scaled(d, low, high) ==
    returns(d, [low |-> low.v, span |-> high.v - low.v,
                random53bit |-> BigDivSmall(d.val, 2048)])

genRangeF64(H, rng, low, high) ==
    IF ~NumLess(low, high) THEN throws(H, rng, ErrLowHigh)
    ELSE IF ~IsFinite(low) \/ ~IsFinite(high) THEN throws(H, rng, ErrFinite)
    ELSE scaled(nextU64(H, rng), low, high)

\* getWordPos with the block the buffer ends at taken for the block it starts at
getWordPos_fromBufEnd(H, rng) ==
    LET bufEndBlock == getBlockPos(H, rng.core)
        bufOffsetWords == BigOfNat(rng.index)
        blocksConsumed == BigDivSmall(bufOffsetWords, BLOCK_WORDS)
        wordsConsumedInBlock == BigOfNat(BigModSmall(bufOffsetWords, BLOCK_WORDS))
        currentBlock == And64(BigAdd(bufEndBlock, blocksConsumed))
    IN BigAdd(BigMulSmall(currentBlock, BLOCK_WORDS), wordsConsumedInBlock)

\* getWordPos without the 64-bit mask on the current block
getWordPos_noMask(H, rng) ==
    LET bufEndBlock == getBlockPos(H, rng.core)
        bufStartBlock == SubSmallAnd64(bufEndBlock, BUF_BLOCKS)
        bufOffsetWords == BigOfNat(rng.index)
        blocksConsumed == BigDivSmall(bufOffsetWords, BLOCK_WORDS)
        wordsConsumedInBlock == BigOfNat(BigModSmall(bufOffsetWords, BLOCK_WORDS))
        currentBlock == BigAdd(bufStartBlock, blocksConsumed)
    IN BigAdd(BigMulSmall(currentBlock, BLOCK_WORDS), wordsConsumedInBlock)

\* getWordPos without the words consumed in the current block
getWordPos_blockOnly(H, rng) ==
    LET bufEndBlock == getBlockPos(H, rng.core)
        bufStartBlock == SubSmallAnd64(bufEndBlock, BUF_BLOCKS)
        bufOffsetWords == BigOfNat(rng.index)
        blocksConsumed == BigDivSmall(bufOffsetWords, BLOCK_WORDS)
        currentBlock == And64(BigAdd(bufStartBlock, blocksConsumed))
    IN BigMulSmall(currentBlock, BLOCK_WORDS)

getWordPos(H, rng) ==
    LET bufEndBlock == getBlockPos(H, rng.core)
        bufStartBlock == SubSmallAnd64(bufEndBlock, BUF_BLOCKS)
        bufOffsetWords == BigOfNat(rng.index)
        blocksConsumed == BigDivSmall(bufOffsetWords, BLOCK_WORDS)
        wordsConsumedInBlock == BigOfNat(BigModSmall(bufOffsetWords, BLOCK_WORDS))
        currentBlock == And64(BigAdd(bufStartBlock, blocksConsumed))
    IN BigAdd(BigMulSmall(currentBlock, BLOCK_WORDS), wordsConsumedInBlock)

\* this.index = n after a refill left s; the call returns nothing
withIndex(s, n) ==
    [heap |-> s.heap, rng |-> [s.rng EXCEPT !.index = n], val |-> NoVal]

\* setWordPos that leaves the cursor at the start of the block
setWordPos_blockStart(H, rng, wordOffset) ==
    withIndex(refill(setBlockPos(H, rng.core, BigDivSmall(wordOffset, BLOCK_WORDS)), rng), 0)

\* setWordPos without the refill: the buffer stays what it was
setWordPos_noRefill(H, rng, wordOffset) ==
    withIndex([heap |-> setBlockPos(H, rng.core, BigDivSmall(wordOffset, BLOCK_WORDS)),
               rng |-> rng],
              Min(Max(BigModSmall(wordOffset, BLOCK_WORDS), 0), BUF_WORDS))

setWordPos(H, rng, wordOffset) ==
    withIndex(refill(setBlockPos(H, rng.core, BigDivSmall(wordOffset, BLOCK_WORDS)), rng),
              Min(Max(BigModSmall(wordOffset, BLOCK_WORDS), 0), BUF_WORDS))

setStream(H, rng, stream) ==
    withIndex(refill(setBlockPos(setNonce(H, rng.core, stream), rng.core, <<>>), rng), 0)

getStream(H, rng) == getNonce(H, rng.core)

getSeed(H, rng) == ChaChaCore_getSeed(H, rng.core)

\* clone that copies the buffer but leaves the new cursor at "empty"
clone_cursorLost(H, rng) ==
    LET c == ChaChaCore_clone(H, rng.core)
    IN [heap |-> Alloc(c.heap, c.heap[rng.buffer]),
        rng |-> rng,
        val |-> [core |-> c.core, buffer |-> NewId(c.heap),
                 index |-> BUF_WORDS, rounds |-> rng.rounds]]

\* clone that leaves the receiver's cursor at "empty", as the constructor does
clone_receiverReset(H, rng) ==
    LET c == ChaChaCore_clone(H, rng.core)
    IN [heap |-> Alloc(c.heap, c.heap[rng.buffer]),
        rng |-> [rng EXCEPT !.index = BUF_WORDS],
        val |-> [core |-> c.core, buffer |-> NewId(c.heap),
                 index |-> rng.index, rounds |-> rng.rounds]]

\* val is the new generator object
clone(H, rng) ==
    LET c == ChaChaCore_clone(H, rng.core)
    IN [heap |-> Alloc(c.heap, c.heap[rng.buffer]),
        rng |-> rng,
        val |-> [core |-> c.core, buffer |-> NewId(c.heap),
                 index |-> rng.index, rounds |-> rng.rounds]]

-------------------------------------------------------------------------------------------------------------------------------------------------
(* The state machine *)

VARIABLES
    heap,     \* the typed arrays, by id
    g,        \* the generator object under study
    c,        \* a second generator object (a clone, a seeker), or NoRng
    calls     \* [n, on]: calls counted so far, and the object of the last call

vars == <<heap, g, c, calls>>

\* the null reference
NoRng == [core |-> [state |-> 0, rounds |-> 0], buffer |-> 0, index |-> 0, rounds |-> 0]

NoCalls == [n |-> 0, on |-> "none"]

\* test_chacha_clone_streams (part_002:202-205)
SeedA ==
    << 0, 0, 0, 0, 1, 0, 0, 0, 2, 0, 0, 0, 3, 0, 0, 0,
       4, 0, 0, 0, 5, 0, 0, 0, 6, 0, 0, 0, 7, 0, 0, 0 >>

\* test_chacha_true_values_c (part_002:119-122)
SeedB ==
    << 0, 255, 0, 0, 0, 0, 0, 0, 0, 0, 0, 0, 0, 0, 0, 0,
       0, 0, 0, 0, 0, 0, 0, 0, 0, 0, 0, 0, 0, 0, 0, 0 >>

\* 2^68 - 64, 2^68 - 1 and 2^69 - 1
PosWrapExact == <<65472, 65535, 65535, 65535, 15>>
PosLast == <<65535, 65535, 65535, 65535, 15>>
PosExcess == <<65535, 65535, 65535, 65535, 31>>

\* 51, and 2^57 (test_chacha_nonce: 2n << 56n)
Stream51 == <<51>>
StreamHigh == <<0, 0, 0, 512>>

\* the bounds of Spec
MaxWords == 70
Seeds == {SeedA}
RoundsOfSpec == {8}
Positions == {<<>>, PosWrapExact, PosLast, PosExcess}
Streams == {Stream51}
FillLens == {0, 1, 5, 8}

\* the word position is within maxWords of the start of the stream, or in
\* the last 64 words before the 68-bit position wraps
InWindow(pos, maxWords) ==
    \/ Len(pos) <= 1 /\ Limb(pos, 1) < maxWords
    \/ /\ Len(pos) = 5 /\ pos[5] = 15
       /\ pos[4] = B16 - 1 /\ pos[3] = B16 - 1 /\ pos[2] = B16 - 1
       /\ pos[1] >= B16 - BUF_WORDS

CanConsume == InWindow(getWordPos(heap, g), MaxWords)

Init ==
    /\ \E seed \in Seeds, rounds \in RoundsOfSpec :
          LET r == fromSeed(<<>>, seed, rounds)
          IN heap = r.heap /\ g = r.rng
    /\ c = NoRng
    /\ calls = NoCalls

Apply(r) == heap' = r.heap /\ g' = r.rng /\ UNCHANGED <<c, calls>>

NextU32 == CanConsume /\ Apply(nextU32(heap, g))

NextU64 == CanConsume /\ Apply(nextU64(heap, g))

FillBytes == CanConsume /\ \E len \in FillLens : Apply(fillBytes(heap, g, len))

SetWordPos == \E pos \in Positions : Apply(setWordPos(heap, g, pos))

\* calls remembers the most recent setStream call
SetStream ==
    \E id \in Streams :
        /\ heap' = setStream(heap, g, id).heap
        /\ g' = setStream(heap, g, id).rng
        /\ c' = c
        /\ calls' = [n |-> calls.n, on |-> "setStream", id |-> id]

\* the arrays of one generator alone, renumbered 1 and 2: the heap after
\* every other array has been collected
Collected(H, rng) ==
    [heap |-> <<H[rng.core.state], H[rng.buffer]>>,
     rng |-> [rng EXCEPT !.core.state = 1, !.buffer = 2]]

\* g = g.clone(): the caller goes on with the clone, the original is garbage
CloneAndDrop == Apply(Collected(clone(heap, g).heap, clone(heap, g).val))

\* arguments of the range methods: a range that throws first, then
\* ranges that draw (all of u64; 2^63 + 1 values, which takes the bias
\* reduction step for half of the first draws; a power of two; 10 values)
RangesU64 ==
    {[low |-> <<5>>, high |-> <<5>>, inclusive |-> FALSE],
     [low |-> <<>>, high |-> TwoTo64, inclusive |-> FALSE],
     [low |-> <<5>>, high |-> <<6, 0, 0, 32768>>, inclusive |-> FALSE]}
RangesU32 == {<<7, 7>>, <<0, 8>>, <<3, 13>>}
RangesI32 == {<<2, -2>>, <<-5, 5>>}
RangesI64 == {<<0, 0>>, <<-3, 4>>}
RangesF64 == {<<NaN, Num(1)>>, <<Num(0), PosInf>>, <<Num(0), Num(1)>>}

\* the range methods; a call that throws leaves the caller with the
\* generator as the call left it
GenRangeU64 ==
    CanConsume /\ \E a \in RangesU64 :
        Apply(genRangeU64(heap, g, a.low, a.high, a.inclusive))

GenRangeU32 == CanConsume /\ \E a \in RangesU32 : Apply(genRangeU32(heap, g, a[1], a[2]))

GenRangeI32 == CanConsume /\ \E a \in RangesI32 : Apply(genRangeI32(heap, g, a[1], a[2]))

GenRangeI64 == CanConsume /\ \E a \in RangesI64 : Apply(genRangeI64(heap, g, a[1], a[2]))

GenRangeF64 == CanConsume /\ \E a \in RangesF64 : Apply(genRangeF64(heap, g, a[1], a[2]))

Next ==
    \/ NextU32 \/ NextU64 \/ FillBytes \/ SetWordPos \/ SetStream \/ CloneAndDrop
    \/ GenRangeU64 \/ GenRangeU32 \/ GenRangeI32 \/ GenRangeI64 \/ GenRangeF64

Spec == Init /\ [][Next]_vars

---------------------------------------------------------------------------
(* Reference: the keystream of a key, stream id and round count *)

\* the 16-word input state of the block numbered block (a bigint below
\* 2^64), under the key and stream id held in the state array st
BlockInput(st, block) ==
    [st EXCEPT ![12 + 1] = Low32(block), ![13 + 1] = Low32(Shr32(block))]

\* word (p mod 16) of block floor(p / 16) of the keystream of generator rng
KeystreamWord(H, rng, p) ==
    blockOutput(BlockInput(H[rng.core.state], BigDivSmall(p, BLOCK_WORDS)),
                rng.core.rounds)[BigModSmall(p, BLOCK_WORDS) + 1]

Live == {r \in {g, c} : r # NoRng}

\* one more nextU32() call in a run of calls: r is what the call returned,
\* l = [heap, rng, val, pos] holds the values returned so far and the
\* position read after each call
wordTaken(l, r) ==
    [heap |-> r.heap, rng |-> r.rng,
     val |-> Append(l.val, r.val),
     pos |-> Append(l.pos, getWordPos(r.heap, r.rng))]

\* k more nextU32() calls; the calls are made in order, each on the
\* generator the one before it left (l.rng.index is read before the next)
RECURSIVE takeWords(_, _)
takeWords(l, k) ==
    IF k = 0 \/ l.rng.index < 0 THEN l
    ELSE takeWords(wordTaken(l, nextU32(l.heap, l.rng)), k - 1)

NextWords(H, rng, k) ==
    takeWords([heap |-> H, rng |-> rng, val |-> <<>>, pos |-> <<>>], k)

\* C1: in every reachable state the next nextU32() returns word (p mod 16)
\* of the keystream block floor(p / 16) under the current key, stream id
\* and rounds, where p = getWordPos() before the call.
C1_NextWordIsKeystreamWord ==
    \A r \in Live :
        nextU32(heap, r).val = KeystreamWord(heap, r, getWordPos(heap, r))

\* a buffer that straddles the wrap of the 64-bit block counter (blocks
\* 2^64 - 1, 0, 1, 2), read into its second block, on a switched stream
C1_Witness ==
    /\ getBlockPos(heap, g.core) = <<3>>
    /\ g.index = 20
    /\ getStream(heap, g) = Stream51
    /\ getWordPos(heap, g) = <<4>>
    /\ nextU32(heap, g).val = KeystreamWord(heap, g, <<4>>)

\* C3: for every position pos, getWordPos() called right after
\* setWordPos(pos) returns pos mod 2^68; this covers pos = 2^68 - 1 and
\* pos >= 2^68 (2^69 - 1), from every reachable state.
C3_GetAfterSetIsPosMod68 ==
    \A pos \in Positions :
        getWordPos(setWordPos(heap, g, pos).heap, setWordPos(heap, g, pos).rng)
            = Mod68(pos)

\* the generator right after setWordPos(2^68 - 1) or setWordPos(2^69 - 1):
\* cursor 15 in block 2^64 - 1, the forced refill has wrapped the counter
C3_Witness ==
    /\ g.index = 15
    /\ getBlockPos(heap, g.core) = <<3>>
    /\ getWordPos(heap, g) = PosLast
    /\ Mod68(PosExcess) = PosLast
    /\ Mod68(PosLast) = PosLast

\* words compared after a seek
LookAhead == 3

\* C4: setWordPos(getWordPos()) leaves getWordPos() unchanged, and the words
\* returned afterwards are those that would have been returned without the
\* call; this includes the fresh generator and a cursor of exactly 64.
C4_ReseekIsIdempotent ==
    LET p == getWordPos(heap, g)
        s == setWordPos(heap, g, p)
    IN /\ getWordPos(s.heap, s.rng) = p
       /\ NextWords(s.heap, s.rng, LookAhead).val = NextWords(heap, g, LookAhead).val

\* a generator that has consumed the last word of its buffer (cursor 64,
\* buffer of blocks 0..3): the seek to its own position regenerates the
\* buffer from block 4 and leaves position 64
C4_Witness ==
    /\ g.index = BUF_WORDS
    /\ getBlockPos(heap, g.core) = <<4>>
    /\ getWordPos(heap, g) = <<64>>
    /\ setWordPos(heap, g, <<64>>).rng.index = 0
    /\ getWordPos(setWordPos(heap, g, <<64>>).heap, setWordPos(heap, g, <<64>>).rng) = <<64>>

\* words consumed in a row when the position is followed
MaxRun == 64

C6_SetStreamKeepsWordPos ==
    \A id \in Streams \cup {StreamHigh} :
        getWordPos(setStream(heap, g, id).heap, setStream(heap, g, id).rng)
            = getWordPos(heap, g)

\* words consumed between the two stream switches (part_002:210)
SwitchGap == 7

\* the generator that switches to stream id now and then consumes n words
switchThenTake(H, rng, id, n) ==
    NextWords(setStream(H, rng, id).heap, setStream(H, rng, id).rng, n)

\* the generator that consumes n words and only then switches to stream id
takeThenSwitch(H, rng, id, n) ==
    setStream(NextWords(H, rng, n).heap, NextWords(H, rng, n).rng, id)

\* the next words of two generators agree
sameNextWords(a, b) ==
    /\ NextWords(a.heap, a.rng, LookAhead).val = NextWords(b.heap, b.rng, LookAhead).val
    /\ nextU64(a.heap, a.rng).val = nextU64(b.heap, b.rng).val

\* C7: of two generators at the same position q of the same key, one calls
\* setStream(s) at q and consumes p - q more words, the other consumes the
\* p - q words and calls setStream(s) at p (p not a multiple of 16); from
\* then on nextU32()/nextU64() return equal values on both.
C7_MidBlockSwitchAgrees ==
    BigModSmall(BigAdd(getWordPos(heap, g), BigOfNat(SwitchGap)), BLOCK_WORDS) # 0
        => sameNextWords(switchThenTake(heap, g, Stream51, SwitchGap),
                         takeThenSwitch(heap, g, Stream51, SwitchGap))

\* save and restore: s is a generator, the calls are made on it
streamTo(s, id) == setStream(s.heap, s.rng, id)

seekTo(s, pos) == setWordPos(s.heap, s.rng, pos)

\* a fresh generator from rng's seed and rounds, then setStream(getStream()),
\* then setWordPos(getWordPos())
restored(H, rng) ==
    seekTo(streamTo(fromSeed(H, getSeed(H, rng), rng.rounds), getStream(H, rng)),
           getWordPos(H, rng))

\* the restored generator d reports what rng reports and returns what it returns
sameAsRestored(H, rng, d) ==
    /\ getSeed(d.heap, d.rng) = getSeed(H, rng)
    /\ getStream(d.heap, d.rng) = getStream(H, rng)
    /\ getWordPos(d.heap, d.rng) = getWordPos(H, rng)
    /\ NextWords(d.heap, d.rng, LookAhead).val = NextWords(H, rng, LookAhead).val
    /\ nextU64(d.heap, d.rng).val = nextU64(H, rng).val

\* C10: for every reachable generator g, a fresh generator built from
\* g.getSeed() with the same rounds, then setStream(g.getStream()), then
\* setWordPos(g.getWordPos()), reports the same seed, stream id and word
\* position as g and returns the same values as g from then on.
C10_SaveRestoreRoundTrip == sameAsRestored(heap, g, restored(heap, g))

\* a generator on stream 51 read to word 37 of a buffer of blocks 0..3; the
\* restored one holds blocks 2..5 with its cursor at 5
C10_Witness ==
    /\ getStream(heap, g) = Stream51
    /\ g.index = 37
    /\ getBlockPos(heap, g.core) = <<4>>
    /\ restored(heap, g).rng.index = 5
    /\ getBlockPos(restored(heap, g).heap, restored(heap, g).rng.core) = <<6>>
    /\ nextU32(restored(heap, g).heap, restored(heap, g).rng).val = nextU32(heap, g).val

---------------------------------------------------------------------------
(* Two fresh generators of one key: g reads on from the start, c seeks *)

MaxSeek == 66
MaxAfter == 62
SeekSeeds == {SeedA, SeedB}
SeekRounds == {8, 20}

\* both constructed, neither used
SeekInit ==
    /\ \E seed \in SeekSeeds, rounds \in SeekRounds :
          LET a == fromSeed(<<>>, seed, rounds)
              b == fromSeed(a.heap, seed, rounds)
          IN heap = b.heap /\ g = a.rng /\ c = b.rng
    /\ calls = NoCalls

\* g.nextU32(), before c has been positioned: calls.n counts the words
SeqNextU32 ==
    /\ calls.on \in {"none", "g"}
    /\ calls.n < MaxSeek
    /\ heap' = nextU32(heap, g).heap
    /\ g' = nextU32(heap, g).rng
    /\ c' = c
    /\ calls' = [n |-> calls.n + 1, on |-> "g"]

\* c.setWordPos(n), n the number of words g has consumed
SeekThere ==
    /\ calls.on \in {"none", "g"}
    /\ heap' = setWordPos(heap, c, BigOfNat(calls.n)).heap
    /\ c' = setWordPos(heap, c, BigOfNat(calls.n)).rng
    /\ g' = g
    /\ calls' = [n |-> calls.n, on |-> "c"]

\* the second of two calls: r is what g.nextU32() returned
thenOnC(r) ==
    /\ heap' = nextU32(r.heap, c).heap
    /\ c' = nextU32(r.heap, c).rng
    /\ g' = r.rng

\* g.nextU32() and then c.nextU32()
BothNextU32 ==
    /\ calls.on \in {"c", "both"}
    /\ Limb(getWordPos(heap, g), 1) < calls.n + MaxAfter
    /\ thenOnC(nextU32(heap, g))
    /\ calls' = [n |-> calls.n, on |-> "both"]

SeekNext == SeqNextU32 \/ SeekThere \/ BothNextU32

SpecSeek == SeekInit /\ [][SeekNext]_vars

\* C2: a fresh generator that has consumed n words and a second fresh
\* generator of the same key and rounds that has called setWordPos(n)
\* return the same value from every later nextU32() and report the same
\* getWordPos() after each call.
C2_SeekMatchesSequential ==
    calls.on \in {"c", "both"}
        => /\ getWordPos(heap, c) = getWordPos(heap, g)
           /\ nextU32(heap, c).val = nextU32(heap, g).val

\* n = 37 and 61 words later: the seeker started with blocks 2..5 and has
\* refilled to blocks 6..9, the reader is in the middle of blocks 4..7
C2_Witness ==
    /\ calls = [n |-> 37, on |-> "both"]
    /\ g.rounds = 20
    /\ c.index = 2 /\ getBlockPos(heap, c.core) = <<10>>
    /\ g.index = 34 /\ getBlockPos(heap, g.core) = <<8>>
    /\ getWordPos(heap, c) = <<98>>
    /\ nextU32(heap, c).val = nextU32(heap, g).val

---------------------------------------------------------------------------
(* A generator and its clone, used in any order *)

MaxCalls == 3
CloneFillLens == {250}
ClonePositions == {PosLast}

Handles == IF c = NoRng THEN {"g"} ELSE {"g", "c"}

Obj(who) == IF who = "g" THEN g ELSE c

\* a method call on the object of handle who returned r
Put(who, r) ==
    /\ heap' = r.heap
    /\ IF who = "g" THEN g' = r.rng /\ c' = c ELSE c' = r.rng /\ g' = g
    /\ calls' = [n |-> calls.n + 1, on |-> who]

OnNextU32 ==
    calls.n < MaxCalls /\ \E who \in Handles : Put(who, nextU32(heap, Obj(who)))

OnNextU64 ==
    calls.n < MaxCalls /\ \E who \in Handles : Put(who, nextU64(heap, Obj(who)))

OnFillBytes ==
    calls.n < MaxCalls /\ \E who \in Handles, len \in CloneFillLens :
        Put(who, fillBytes(heap, Obj(who), len))

OnSetWordPos ==
    calls.n < MaxCalls /\ \E who \in Handles, pos \in ClonePositions :
        Put(who, setWordPos(heap, Obj(who), pos))

OnSetStream ==
    calls.n < MaxCalls /\ \E who \in Handles, id \in Streams :
        Put(who, setStream(heap, Obj(who), id))

\* c = g.clone()
Clone ==
    /\ calls.n < MaxCalls
    /\ c = NoRng
    /\ heap' = clone(heap, g).heap
    /\ g' = clone(heap, g).rng
    /\ c' = clone(heap, g).val
    /\ calls' = [n |-> calls.n + 1, on |-> "clone"]

CloneNext ==
    OnNextU32 \/ OnNextU64 \/ OnFillBytes \/ OnSetWordPos \/ OnSetStream \/ Clone

SpecClone == Init /\ [][CloneNext]_vars

\* everything a generator object holds: state words (key, counter, stream
\* id), buffer contents, cursor and rounds
View(H, rng) ==
    [state |-> H[rng.core.state], buffer |-> H[rng.buffer],
     index |-> rng.index, rounds |-> rng.rounds, halfRounds |-> rng.core.rounds]

\* the operations applied to a generator and its clone alike
LockOps ==
    {[name |-> "nextU32"], [name |-> "nextU64"],
     [name |-> "fillBytes", len |-> 5],
     [name |-> "setWordPos", pos |-> PosLast],
     [name |-> "setStream", id |-> Stream51]}

doOp(op, H, rng) ==
    CASE op.name = "nextU32" -> nextU32(H, rng)
      [] op.name = "nextU64" -> nextU64(H, rng)
      [] op.name = "fillBytes" -> fillBytes(H, rng, op.len)
      [] op.name = "setWordPos" -> setWordPos(H, rng, op.pos)
      [] op.name = "setStream" -> setStream(H, rng, op.id)

\* wa: the first generator after its next words; b the second generator
agreeWords(wa, b) == wa.val = NextWords(wa.heap, b, LookAhead).val

\* ra, rb: what one operation returned on the first and on the second
\* generator, the second called after the first
agreeAfter(ra, rb) ==
    /\ ra.val = rb.val
    /\ View(rb.heap, ra.rng) = View(rb.heap, rb.rng)
    /\ agreeWords(NextWords(rb.heap, ra.rng, LookAhead), rb.rng)

\* op on a (it returned ra), then op on b
thenSame(op, ra, b) == agreeAfter(ra, doOp(op, ra.heap, b))

\* b reports what a reports, and each operation, applied to a and then to
\* b, returns the same value and leaves them returning the same words
sameSequences(H, a, b) ==
    /\ getSeed(H, b) = getSeed(H, a)
    /\ getStream(H, b) = getStream(H, a)
    /\ getWordPos(H, b) = getWordPos(H, a)
    /\ \A op \in LockOps : thenSame(op, doOp(op, H, a), b)

\* C8: right after g2 = g1.clone(), from every reachable g1, g2 has the
\* seed, stream id and word position of g1, and the same operations applied
\* to g1 and g2 return equal values at every step.
C8_CloneSequenceEquality ==
    [][calls'.on = "clone" => sameSequences(heap', g', c')]_vars

\* a clone taken with one unread word left in the buffer, on stream 51
C8_Witness ==
    /\ calls.on = "clone"
    /\ c.index = 63 /\ g.index = 63
    /\ getStream(heap, c) = Stream51
    /\ c.buffer # g.buffer /\ heap[c.buffer] = heap[g.buffer]
    /\ nextU32(heap, c).val = nextU32(heap, g).val

\* C9: once c = g.clone() exists, no call on g changes the state words
\* (counter, stream id), buffer contents or cursor of c, and no call on c
\* changes those of g, so the next word of the untouched one stays the same.
C9_CloneIndependence ==
    [][/\ (c # NoRng /\ calls'.on = "g")
            => /\ View(heap', c') = View(heap, c)
               /\ nextU32(heap', c').val = nextU32(heap, c).val
       /\ calls'.on = "c"
            => /\ View(heap', g') = View(heap, g)
               /\ nextU32(heap', g').val = nextU32(heap, g).val]_vars

\* clone, then g.setStream(51), then c.nextU32(): two objects on different
\* streams at different cursors, in arrays of their own
C9_Witness ==
    /\ calls = [n |-> 3, on |-> "c"]
    /\ c.buffer # g.buffer /\ c.core.state # g.core.state
    /\ getStream(heap, g) = Stream51 /\ g.index = 0
    /\ getStream(heap, c) = <<>> /\ c.index = 1

---------------------------------------------------------------------------
(* The consuming calls, one at a time *)

\* getWordPos() of the generator a call left
posAfter(s) == getWordPos(s.heap, s.rng)

\* the position n words after p
Advance(p, n) == Mod68(BigAdd(p, BigOfNat(n)))

\* byte lengths: nothing, one word and a byte, 130 words less 3 bytes
FillCheckLens == {0, 5, 517}

\* C11: from every reachable state with word position p, getWordPos() after
\* fillBytes of an n-byte array is (p + ceil(n / 4)) mod 2^68, for lengths
\* that span two refills and end in a partial word as well; n = 0 changes
\* nothing and refills nothing.
C11_FillBytesAdvancesCeilWords ==
    /\ \A len \in FillCheckLens :
          posAfter(fillBytes(heap, g, len))
              = Advance(getWordPos(heap, g), (len + 3) \div 4)
    /\ fillBytes(heap, g, 0).heap = heap
    /\ fillBytes(heap, g, 0).rng = g

\* two words left in the buffer of blocks 0..3: 517 bytes take them, two
\* whole refills less 3 bytes, and leave the cursor at 64 on blocks 8..11
C11_Witness ==
    /\ g.index = 62
    /\ getBlockPos(heap, g.core) = <<4>>
    /\ fillBytes(heap, g, 517).rng.index = BUF_WORDS
    /\ getBlockPos(fillBytes(heap, g, 517).heap, g.core) = <<12>>
    /\ posAfter(fillBytes(heap, g, 517)) = <<192>>
    /\ Len(fillBytes(heap, g, 517).val) = 517

\* 2^32 * a, by four multiplications by 2^8
TimesTwoTo32(a) == BigMulSmall(BigMulSmall(BigMulSmall(BigMulSmall(a, 256), 256), 256), 256)

\* w1 + 2^32 * w2 of two words
U64Of(w1, w2) == BigAdd(BigOfWord(w1), TimesTwoTo32(BigOfWord(w2)))

\* C12: in every reachable state nextU64() advances getWordPos() by 2 mod
\* 2^68, also when its first word is the last of the buffer, and returns
\* w1 + 2^32 * w2, w1 and w2 being the values two consecutive nextU32()
\* calls return from the same state.
C12_NextU64IsTwoWords ==
    /\ posAfter(nextU64(heap, g)) = Advance(getWordPos(heap, g), 2)
    /\ nextU64(heap, g).val
          = U64Of(NextWords(heap, g, 2).val[1], NextWords(heap, g, 2).val[2])

\* one word left in the buffer of blocks 0..3: the low half is that word,
\* the high half the first word of the refilled buffer of blocks 4..7
C12_Witness ==
    /\ g.index = 63
    /\ getBlockPos(heap, g.core) = <<4>>
    /\ nextU64(heap, g).rng.index = 1
    /\ getBlockPos(nextU64(heap, g).heap, g.core) = <<8>>
    /\ nextU64(heap, g).val
          = U64Of(heap[g.buffer][64], KeystreamWord(heap, g, <<64>>))

\* a Uint32Array element
IsWord(w) == Len(w) = 2 /\ w[1] \in 0..(B16 - 1) /\ w[2] \in 0..(B16 - 1)

\* the keystream blocks block .. block + 3 (mod 2^64) under the key and
\* stream id of the state array st
FourBlocks(st, block, rounds) ==
    blockOutput(BlockInput(st, block), rounds)
    \o blockOutput(BlockInput(st, And64(BigAdd(block, <<1>>))), rounds)
    \o blockOutput(BlockInput(st, And64(BigAdd(block, <<2>>))), rounds)
    \o blockOutput(BlockInput(st, And64(BigAdd(block, <<3>>))), rounds)

\* what one nextU32() call, which returned r, did to generator rng
nextU32Effect(H, rng, r) ==
    /\ IsWord(r.val)
    /\ posAfter(r) = Advance(getWordPos(H, rng), 1)
    /\ rng.index <= BUF_WORDS
    /\ IF rng.index = BUF_WORDS
       THEN /\ ~generate(H, rng.core, rng.buffer).threw
            /\ getBlockPos(r.heap, rng.core)
                  = And64(BigAdd(getBlockPos(H, rng.core), <<BUF_BLOCKS>>))
            /\ r.heap[rng.buffer]
                  = FourBlocks(H[rng.core.state], getBlockPos(H, rng.core), rng.core.rounds)
            /\ r.rng.index = 1
       ELSE /\ getBlockPos(r.heap, rng.core) = getBlockPos(H, rng.core)
            /\ r.heap[rng.buffer] = H[rng.buffer]
            /\ r.rng.index = rng.index + 1

\* C13: in every reachable state nextU32() returns a word and advances the
\* word position by 1 mod 2^68; it runs the block generator (block counter
\* + 4 mod 2^64, buffer replaced by the next four blocks) if and only if
\* the cursor is 64 before the call, and otherwise leaves the block counter
\* and the buffer contents unchanged.
C13_NextU32RefillsIffEmpty == nextU32Effect(heap, g, nextU32(heap, g))

\* a used-up buffer of blocks 0..3: the call replaces it by blocks 4..7
C13_Witness ==
    /\ g.index = BUF_WORDS
    /\ getBlockPos(heap, g.core) = <<4>>
    /\ nextU32(heap, g).rng.index = 1
    /\ getBlockPos(nextU32(heap, g).heap, g.core) = <<8>>
    /\ nextU32(heap, g).heap[g.buffer] # heap[g.buffer]
    /\ nextU32(heap, g).val = KeystreamWord(heap, g, <<64>>)

---------------------------------------------------------------------------
(* What no call changes *)

\* 0x61707865, 0x3320646e, 0x79622d32, 0x6b206574
ChaChaConstants ==
    << <<30821, 24944>>, <<25710, 13088>>, <<11570, 31074>>, <<25972, 27424>> >>

\* state words 0..3 are the constants and words 4..11 are the 32 bytes of
\* seed, four to a word, lowest byte first
HoldsKey(st, seed) ==
    /\ SubSeq(st, 1, 4) = ChaChaConstants
    /\ \A i \in 0..7 : WordBytes(st[4 + i + 1]) = SubSeq(seed, 4 * i + 1, 4 * i + 4)

\* C14: after any sequence of calls (words, bytes, range sampling,
\* setWordPos, setStream, clone) state words 0..3 hold the four ChaCha
\* constants and words 4..11 the key of construction, and getSeed()
\* returns the 32 bytes the generator was constructed with.
C14_KeyNeverChanges ==
    \A r \in Live :
        /\ HoldsKey(heap[r.core.state], SeedA)
        /\ getSeed(heap, r) = SeedA

\* after setStream(51) and setWordPos(2^68 - 1): words 12..15 have all been
\* written, the forced refill has wrapped the counter
C14_Witness ==
    /\ getStream(heap, g) = Stream51
    /\ getWordPos(heap, g) = PosLast
    /\ getBlockPos(heap, g.core) = <<3>>
    /\ heap[g.buffer] # Zeros(BUF_WORDS)
    /\ getSeed(heap, g) = SeedA

\* getStream() of the generator a call left
streamAfter(s) == getStream(s.heap, s.rng)

\* 2^64 + 51
StreamOver == <<51, 0, 0, 0, 1>>

\* C15: getStream() returns the id (mod 2^64) passed to the most recent
\* setStream call, or 0 if setStream was never called on the generator
\* from fromSeed; no other call (words, bytes, range sampling, refills,
\* setWordPos) changes it.  From every state setStream(id) makes
\* getStream() return id mod 2^64, for ids of 2^57 and 2^64 + 51 too.
C15_StreamIsLastSetStream ==
    /\ getStream(heap, g) = IF calls.on = "setStream" THEN And64(calls.id) ELSE <<>>
    /\ \A id \in {StreamHigh, StreamOver} :
          streamAfter(setStream(heap, g, id)) = And64(id)

\* 67 words and one refill after setStream(51)
C15_Witness ==
    /\ calls.on = "setStream"
    /\ g.index = 3
    /\ getBlockPos(heap, g.core) = <<8>>
    /\ getStream(heap, g) = Stream51
    /\ heap[g.core.state][14 + 1] = <<51, 0>>

---------------------------------------------------------------------------
(* fillBytes byte order *)

\* 4k + 3 and 4k bytes of a few words, and the 4k bytes of 65 words
FillOrderLens == {7, 12, 260}

\* bits 8j .. 8j+7 of the word w, j = 0..3
BitsOfWord(w, j) == (w[(j \div 2) + 1] \div (IF j % 2 = 0 THEN 1 ELSE 256)) % 256

\* the first n bytes of the little-endian serialization of the words ws
LittleEndian(ws, n) ==
    [b \in 1..n |-> BitsOfWord(ws[((b - 1) \div 4) + 1], (b - 1) % 4)]

\* C26: from every reachable state fillBytes on an array of n bytes writes
\* the first n bytes of the little-endian serialization of the words that
\* ceil(n / 4) consecutive nextU32() calls would return from that state,
\* across refills too; the last n mod 4 bytes are the low bytes of the
\* last word.
C26_FillBytesLittleEndian ==
    \A len \in FillOrderLens :
        fillBytes(heap, g, len).val
            = LittleEndian(NextWords(heap, g, (len + 3) \div 4).val, len)

\* one word left in the buffer of blocks 0..3: 7 bytes take it and, after
\* a refill, the low 3 bytes of word 64
C26_Witness ==
    /\ g.index = 63
    /\ getBlockPos(heap, g.core) = <<4>>
    /\ fillBytes(heap, g, 7).rng.index = 1
    /\ Len(fillBytes(heap, g, 7).val) = 7
    /\ fillBytes(heap, g, 7).val[1] = heap[g.buffer][64][1] % 256
    /\ fillBytes(heap, g, 7).val[7] = KeystreamWord(heap, g, <<64>>)[2] % 256

---------------------------------------------------------------------------
(* setWordPos *)

\* 0, 16 * (2^32 - 2) + 9 (the low counter word overflows during the
\* refill) and 2^68 - 1
SeekTargets == {<<>>, <<65513, 65535, 15>>, PosLast}

\* the heap H with the counter of rng set to block + 4 (mod 2^64) and its
\* buffer holding the blocks block .. block + 3 of its key and stream
heapAt(H, rng, block) ==
    [H EXCEPT ![rng.core.state][12 + 1] = Low32(And64(BigAdd(block, <<BUF_BLOCKS>>))),
              ![rng.core.state][13 + 1] = Low32(Shr32(And64(BigAdd(block, <<BUF_BLOCKS>>)))),
              ![rng.buffer] = FourBlocks(H[rng.core.state], block, rng.core.rounds)]

\* what setWordPos(pos), which left s, did to generator rng
seekEffect(H, rng, pos, s) ==
    s = [heap |-> heapAt(H, rng, BigDivSmall(pos, BLOCK_WORDS)),
         rng |-> [rng EXCEPT !.index = BigModSmall(pos, BLOCK_WORDS)],
         val |-> NoVal]

\* C22: from every reachable state, whatever its buffer and cursor,
\* setWordPos(pos) with 0 <= pos < 2^68 leaves block counter
\* (floor(pos / 16) + 4) mod 2^64, a buffer of the blocks floor(pos / 16)
\* .. floor(pos / 16) + 3 (mod 2^64) of the current key and stream, and
\* cursor pos mod 16.
C22_SetWordPosEffect ==
    \A pos \in SeekTargets : seekEffect(heap, g, pos, setWordPos(heap, g, pos))

\* seven words into a buffer of stream 51: the seek to 16 * (2^32 - 2) + 9
\* replaces the buffer, carries the counter into its high word and puts
\* the cursor at 9
C22_Witness ==
    /\ g.index = 7
    /\ getStream(heap, g) = Stream51
    /\ setWordPos(heap, g, <<65513, 65535, 15>>).rng.index = 9
    /\ setWordPos(heap, g, <<65513, 65535, 15>>).heap[g.buffer] # heap[g.buffer]
    /\ getBlockPos(setWordPos(heap, g, <<65513, 65535, 15>>).heap, g.core) = <<2, 0, 1>>

---------------------------------------------------------------------------
(* The cursor *)

\* C27: in every reachable state the cursor is an integer of 0..64; the
\* buffer is read at the cursor only after the refill test (nextU32 and
\* every pass of fillBytes), which leaves a cursor below 64; setWordPos and
\* setStream leave a cursor below 64 and clone copies it, so that a cursor
\* of 64 is that of construction or of a call that consumed the last
\* buffered word.
C27_CursorBound ==
    /\ g.index \in 0..BUF_WORDS
    /\ refillIfEmpty(heap, g).rng.index \in 0..(BUF_WORDS - 1)
    /\ \A pos \in Positions :
          setWordPos(heap, g, pos).rng.index \in 0..(BLOCK_WORDS - 1)
    /\ \A id \in Streams : setStream(heap, g, id).rng.index = 0
    /\ clone(heap, g).val.index = g.index
    /\ clone(heap, g).rng.index = g.index

\* a used-up buffer on stream 51: the next word is read at cursor 0 of a
\* new buffer
C27_Witness ==
    /\ g.index = BUF_WORDS
    /\ getBlockPos(heap, g.core) = <<4>>
    /\ getStream(heap, g) = Stream51
    /\ refillIfEmpty(heap, g).rng.index = 0
    /\ nextU32(heap, g).rng.index = 1

\* a bigint n with 0 <= n < 2^68
IsPosition(n) ==
    /\ n = Norm(n)
    /\ \A i \in 1..Len(n) : n[i] \in 0..(B16 - 1)
    /\ BigLess(n, <<0, 0, 0, 0, 16>>)

\* C28: in every reachable state getWordPos() is an integer p with
\* 0 <= p < 2^68 and p mod 16 = cursor mod 16.
C28_PositionRange ==
    /\ IsPosition(getWordPos(heap, g))
    /\ BigModSmall(getWordPos(heap, g), BLOCK_WORDS) = g.index % BLOCK_WORDS

\* the last word of the buffer of blocks 2^64 - 4 .. 2^64 - 1 is unread:
\* the position is 2^68 - 1 and the counter has wrapped to 0
C28_Witness ==
    /\ g.index = BUF_WORDS - 1
    /\ getBlockPos(heap, g.core) = <<>>
    /\ getWordPos(heap, g) = PosLast

---------------------------------------------------------------------------
(* Read-only operations.  getWordPos, getStream and getSeed store nothing  *)
(* (they are operators to a value); clone allocates two arrays.            *)

\* the call that left s kept every array of H, the state words, buffer and
\* cursor of rng among them, and what rng reports and returns next
frameKept(H, rng, s) ==
    /\ s.rng = rng
    /\ SubSeq(s.heap, 1, Len(H)) = H
    /\ getWordPos(s.heap, s.rng) = getWordPos(H, rng)
    /\ getStream(s.heap, s.rng) = getStream(H, rng)
    /\ getSeed(s.heap, s.rng) = getSeed(H, rng)
    /\ NextWords(s.heap, s.rng, LookAhead).val = NextWords(H, rng, LookAhead).val

\* C29: in every reachable state clone() leaves the receiver's 16 state
\* words, buffer and cursor unchanged, so do getWordPos(), getStream() and
\* getSeed(), which return after it what they returned before it, and the
\* words the generator returns next are the same with and without the call.
C29_ReadOnlyFrame == frameKept(heap, g, clone(heap, g))

\* two words left in a buffer of stream 51: the clone gets arrays of its
\* own, and the third word after it comes from the receiver's refill
C29_Witness ==
    /\ g.index = 62
    /\ getStream(heap, g) = Stream51
    /\ Len(clone(heap, g).heap) = Len(heap) + 2
    /\ clone(heap, g).val.buffer # g.buffer
    /\ NextWords(clone(heap, g).heap, g, LookAhead).rng.index = 1

---------------------------------------------------------------------------
(* Range-argument errors *)

\* bounds with low >= high
BadU32 == {<<7, 7>>, <<9, 3>>, <<0, 0>>}
BadI32 == {<<2, -2>>, <<-5, -5>>}
BadI64 == {<<0, 0>>, <<4, -3>>}
BadU64 == {<< <<5>>, <<5>> >>, << <<6>>, <<5>> >>, <<TwoTo64, TwoTo64>>, << <<1>>, <<>> >>}
\* inclusive bounds with low > high
BadU64Inclusive == {<< <<6>>, <<5>> >>, <<U64_MASK, <<>> >>}
\* numbers with low >= high, a NaN or an infinite bound
BadF64 ==
    {<<Num(1), Num(1)>>, <<Num(2), Num(1)>>, <<NaN, Num(1)>>, <<Num(1), NaN>>,
     <<NaN, NaN>>, <<Num(0), PosInf>>, <<NegInf, Num(0)>>, <<NegInf, PosInf>>,
     <<PosInf, PosInf>>, <<PosInf, NegInf>>, <<PosInf, Num(0)>>}

\* the call r threw and left the generator rng and every array of H as
\* they were
threwUntouched(H, rng, r) ==
    /\ r.threw # ""
    /\ r.heap = H
    /\ r.rng = rng
    /\ posAfter(r) = getWordPos(H, rng)

\* C17: genRangeU32, genRangeI32, genRangeU64 (exclusive), genRangeI64 and
\* genRangeF64 with low >= high, genRangeU64 (inclusive) with low > high and
\* genRangeF64 with a NaN or infinite bound throw, and block counter, stream
\* id, buffer and cursor are after the throw what they were before the call.
C17_RangeErrorsMutateNothing ==
    /\ \A a \in BadU32 : threwUntouched(heap, g, genRangeU32(heap, g, a[1], a[2]))
    /\ \A a \in BadI32 : threwUntouched(heap, g, genRangeI32(heap, g, a[1], a[2]))
    /\ \A a \in BadU64 : threwUntouched(heap, g, genRangeU64(heap, g, a[1], a[2], FALSE))
    /\ \A a \in BadU64Inclusive :
          threwUntouched(heap, g, genRangeU64(heap, g, a[1], a[2], TRUE))
    /\ \A a \in BadI64 : threwUntouched(heap, g, genRangeI64(heap, g, a[1], a[2]))
    /\ \A a \in BadF64 : threwUntouched(heap, g, genRangeF64(heap, g, a[1], a[2]))

\* a generator in the middle of its buffer, after a seek and at least one
\* range call: the infinite bound is refused there, the same call with
\* finite bounds moves the cursor by two
C17_Witness ==
    /\ g.index = 7
    /\ getBlockPos(heap, g.core) # <<BUF_BLOCKS>>
    /\ genRangeF64(heap, g, Num(0), PosInf).threw = ErrFinite
    /\ genRangeF64(heap, g, Num(0), PosInf).rng.index = 7
    /\ genRangeF64(heap, g, Num(0), Num(1)).rng.index = 9

---------------------------------------------------------------------------
(* genRangeU64 over arbitrary keystream words *)

\* the words the next two nextU64() calls return are taken arbitrary: the
\* buffer of a generator that has read 60 words holds them at 60..63
MaxRangeCalls == 1
DrawAt == BUF_WORDS - 4

\* 0, 1, 2^32, 2^63 - 1, 2^63, 2^63 + 1, 2^64 - 1 as <<low word, high word>>
DrawValues ==
    { <<W0, W0>>, <<W1, W0>>, <<W0, W1>>,
      << <<65535, 65535>>, <<65535, 32767>> >>,
      <<W0, <<0, 32768>> >>, <<W1, <<0, 32768>> >>,
      << <<65535, 65535>>, <<65535, 65535>> >> }

\* ranges [low, high) and [low, high]: of 1, 2, 3, 2^32, 2^63, 2^63 + 1,
\* 2^64 - 3, 2^64 - 1 and 2^64 values, and two that are empty
RangeArgs ==
    {[low |-> <<>>, high |-> <<1>>, inclusive |-> FALSE],
     [low |-> <<7>>, high |-> <<7>>, inclusive |-> TRUE],
     [low |-> <<65534, 65535, 65535, 65535>>, high |-> U64_MASK, inclusive |-> TRUE],
     [low |-> <<>>, high |-> <<3>>, inclusive |-> FALSE],
     [low |-> <<7>>, high |-> <<7, 0, 1>>, inclusive |-> FALSE],
     [low |-> <<0, 0, 0, 32768>>, high |-> TwoTo64, inclusive |-> FALSE],
     [low |-> <<5>>, high |-> <<6, 0, 0, 32768>>, inclusive |-> FALSE],
     [low |-> <<3>>, high |-> U64_MASK, inclusive |-> TRUE],
     [low |-> <<1>>, high |-> TwoTo64, inclusive |-> FALSE],
     [low |-> <<>>, high |-> TwoTo64, inclusive |-> FALSE],
     [low |-> <<>>, high |-> U64_MASK, inclusive |-> TRUE],
     [low |-> <<5>>, high |-> <<5>>, inclusive |-> FALSE],
     [low |-> <<6>>, high |-> <<5>>, inclusive |-> TRUE]}

\* the generator f after its first refill and 60 words, the four unread
\* words of its buffer being those of x1 and x2
withDraws(f, x1, x2) ==
    [heap |-> [f.heap EXCEPT
                  ![f.rng.core.state][12 + 1] = <<BUF_BLOCKS, 0>>,
                  ![f.rng.buffer] = [i \in 1..BUF_WORDS |->
                        IF i <= DrawAt THEN W0
                        ELSE (x1 \o x2)[i - DrawAt]]],
     rng |-> [f.rng EXCEPT !.index = DrawAt]]

RangeInit ==
    /\ \E x1 \in DrawValues, x2 \in DrawValues :
          /\ heap = withDraws(fromSeed(<<>>, SeedA, 8), x1, x2).heap
          /\ g = withDraws(fromSeed(<<>>, SeedA, 8), x1, x2).rng
    /\ c = NoRng
    /\ calls = NoCalls

\* genRangeU64(a.low, a.high, a.inclusive) returned or threw r
Ranged(a, r) ==
    /\ heap' = r.heap
    /\ g' = r.rng
    /\ c' = c
    /\ calls' = [n |-> calls.n + 1, on |-> "genRangeU64", low |-> a.low,
                 high |-> a.high, inclusive |-> a.inclusive,
                 threw |-> r.threw, val |-> r.val]

RangeU64 ==
    /\ calls.n < MaxRangeCalls
    /\ \E a \in RangeArgs :
          Ranged(a, genRangeU64(heap, g, a.low, a.high, a.inclusive))

RangeNext == RangeU64

SpecRange == RangeInit /\ [][RangeNext]_vars

\* the number of values of [low, high) or [low, high], mod 2^64
RangeSizeOf(low, high, inclusive) ==
    And64(BigAdd(BigSub(IF inclusive THEN high ELSE BigSub(high, <<1>>), low), <<1>>))

\* the low 64 bits of x * rangeSize are above (2^64 - rangeSize) mod 2^64
IsBiased(x, rangeSize) ==
    BigLess(And64(BigSub(TwoTo64, rangeSize)), And64(BigMul(x, rangeSize)))

\* a genRangeU64 call over rangeSize values, the first word of which was x,
\* moved the position from p to q and returned v
drawRule(x, rangeSize, p, q, v) ==
    IF rangeSize = <<>> THEN q = Advance(p, 2) /\ v = x
    ELSE IF IsBiased(x, rangeSize) THEN q = Advance(p, 4)
    ELSE q = Advance(p, 2)

\* C24: a genRangeU64 call that does not throw advances the word position
\* by 4 (a second 64-bit word is drawn) if rangeSize # 0 and the low 64 bits
\* of first word * rangeSize are strictly above (2^64 - rangeSize) mod 2^64,
\* and by 2 otherwise; with rangeSize = 0 it returns the word drawn.
C24_SecondDrawIffBiased ==
    [][(calls'.on = "genRangeU64" /\ calls'.threw = "") =>
          drawRule(nextU64(heap, g).val,
                   RangeSizeOf(calls'.low, calls'.high, calls'.inclusive),
                   getWordPos(heap, g), getWordPos(heap', g'), calls'.val)]_vars

\* [1, 2^64) with first word 2^32: the low half of the product is
\* 2^64 - 2^32, above the threshold 1, and all four buffered words are used
C24_Witness ==
    /\ calls.on = "genRangeU64" /\ calls.threw = ""
    /\ calls.low = <<1>> /\ calls.high = TwoTo64
    /\ heap[g.buffer][DrawAt + 1] = W0 /\ heap[g.buffer][DrawAt + 2] = W1
    /\ g.index = BUF_WORDS
    /\ getWordPos(heap, g) = <<64>>

\* 2^k as a bigint
TwoTo(k) == [i \in 1..((k \div 16) + 1) |-> IF i = (k \div 16) + 1 THEN 2^(k % 16) ELSE 0]

\* floor(x / 2^n) for 0 <= n <= 64
ShrBits(x, n) ==
    BigDivSmall(BigDivSmall(IF Len(x) <= n \div 16 THEN <<>>
                            ELSE SubSeq(x, (n \div 16) + 1, Len(x)),
                            2^((n % 16) \div 2)),
                2^((n % 16) - ((n % 16) \div 2)))

\* a genRangeU64 call over 2^k values from low on, the first word of which
\* was x, moved the position from p to q and returned v
powerRule(x, k, low, p, q, v) ==
    /\ q = Advance(p, 2)
    /\ v = BigAdd(low, ShrBits(x, 64 - k))

\* C30: a genRangeU64 call whose rangeSize is 2^k, 1 <= k <= 63, draws one
\* 64-bit word x only (the word position advances by 2) and returns
\* low + floor(x / 2^(64 - k)).
C30_PowerOfTwoRange ==
    [][\A k \in 1..63 :
          (/\ calls'.on = "genRangeU64" /\ calls'.threw = ""
           /\ RangeSizeOf(calls'.low, calls'.high, calls'.inclusive) = TwoTo(k))
             => powerRule(nextU64(heap, g).val, k, calls'.low,
                          getWordPos(heap, g), getWordPos(heap', g'), calls'.val)]_vars

\* [7, 7 + 2^32) with first word 2^64 - 1: the low half of the product is
\* 2^64 - 2^32, the threshold itself; one word is drawn and 7 + 2^32 - 1
\* is returned
C30_Witness ==
    /\ calls.on = "genRangeU64"
    /\ calls.low = <<7>> /\ calls.high = <<7, 0, 1>>
    /\ heap[g.buffer][DrawAt + 1] = <<65535, 65535>>
    /\ heap[g.buffer][DrawAt + 2] = <<65535, 65535>>
    /\ g.index = DrawAt + 2
    /\ calls.val = <<6, 0, 1>>

\* low <= v < high, or low <= v <= high
InRange(v, low, high, inclusive) ==
    /\ ~BigLess(v, low)
    /\ IF inclusive THEN ~BigLess(high, v) ELSE BigLess(v, high)

\* C16: for 0 <= low < high <= 2^64 (exclusive) and 0 <= low <= high < 2^64
\* (inclusive) genRangeU64 returns, whatever the one or two 64-bit words
\* drawn, a value r with low <= r < high, respectively low <= r <= high.
C16_GenRangeU64StaysInRange ==
    calls.on = "genRangeU64"
        => IF calls.inclusive /\ BigLess(calls.high, calls.low) THEN calls.threw # ""
           ELSE IF ~calls.inclusive /\ ~BigLess(calls.low, calls.high) THEN calls.threw # ""
           ELSE /\ calls.threw = ""
                /\ InRange(calls.val, calls.low, calls.high, calls.inclusive)

\* [5, 2^63 + 6): the first draw 1 gives candidate 0 with a low half above
\* the threshold, the second draw 2^64 - 1 overflows the sum, the candidate
\* is incremented and 6 is returned; both draws are used up
C16_Witness ==
    /\ calls.on = "genRangeU64"
    /\ calls.low = <<5>> /\ calls.high = <<6, 0, 0, 32768>>
    /\ heap[g.buffer][DrawAt + 1] = W1 /\ heap[g.buffer][DrawAt + 2] = W0
    /\ heap[g.buffer][DrawAt + 3] = <<65535, 65535>>
    /\ heap[g.buffer][DrawAt + 4] = <<65535, 65535>>
    /\ g.index = BUF_WORDS
    /\ calls.val = <<6>>

---------------------------------------------------------------------------
(* Construction, and the first words of a new generator *)

MaxNewWords == 33

\* new Uint8Array(n)
ZeroBytes(n) == [i \in 1..n |-> 0]

NewSeeds == {ZeroBytes(0), ZeroBytes(31), ZeroBytes(32), SeedA, ZeroBytes(33)}
NewNonces ==
    {ZeroBytes(0), ZeroBytes(8), [i \in 1..8 |-> 16 * i], [i \in 1..12 |-> i],
     ZeroBytes(16)}
NewRounds == {8, 12, 20}

\* nothing is constructed yet
NewInit ==
    /\ heap = <<>>
    /\ g = NoRng
    /\ c = NoRng
    /\ calls = NoCalls

\* g = ChaChaRng.fromSeed(seed, rounds) returned or threw r
Built(seed, r) ==
    /\ heap' = r.heap
    /\ g' = IF r.threw = "" THEN r.rng ELSE g
    /\ c' = c
    /\ calls' = [n |-> 0, on |-> "fromSeed", seed |-> Len(seed), threw |-> r.threw,
                 rewound |-> FALSE]

FromSeed ==
    /\ calls.on = "none"
    /\ \E seed \in NewSeeds, rounds \in NewRounds :
          Built(seed, fromSeed(heap, seed, rounds))

\* c.core = new ChaChaCore(seed, nonce, rounds) returned or threw r
CoreBuilt(seed, nonce, r) ==
    /\ heap' = r.heap
    /\ g' = g
    /\ c' = IF r.threw = "" THEN [NoRng EXCEPT !.core = r.core] ELSE c
    /\ calls' = [n |-> 0, on |-> "ChaChaCore", seed |-> Len(seed),
                 nonce |-> Len(nonce), bytes |-> nonce, threw |-> r.threw,
                 rewound |-> FALSE]

NewCore ==
    /\ calls.on = "none"
    /\ \E seed \in NewSeeds, nonce \in NewNonces, rounds \in NewRounds :
          CoreBuilt(seed, nonce, ChaChaCore_new(heap, seed, nonce, rounds))

\* g.nextU32() returned r; calls.n counts the words since construction or
\* since the last setWordPos(0)
FirstDrawn(r) ==
    /\ heap' = r.heap
    /\ g' = r.rng
    /\ c' = c
    /\ calls' = [n |-> calls.n + 1, on |-> "nextU32", val |-> r.val,
                 rewound |-> calls.rewound]

FirstNextU32 ==
    /\ g # NoRng
    /\ calls.n < MaxNewWords
    /\ FirstDrawn(nextU32(heap, g))

\* g.setWordPos(0n) left r
Rewound(r) ==
    /\ heap' = r.heap
    /\ g' = r.rng
    /\ c' = c
    /\ calls' = [n |-> 0, on |-> "setWordPos", after |-> calls.n, rewound |-> TRUE]

Rewind ==
    /\ g # NoRng
    /\ Rewound(setWordPos(heap, g, <<>>))

NewNext == FromSeed \/ NewCore \/ FirstNextU32 \/ Rewind

SpecNew == NewInit /\ [][NewNext]_vars

\* C18: a key that is not 32 bytes long, or a nonce that is neither 8 nor
\* 12 bytes long, makes construction throw with no array allocated and no
\* object returned; a 32-byte key with an 8- or 12-byte nonce (fromSeed
\* passes one of 8 bytes) always gives an object.
C18_ConstructionErrors ==
    /\ calls.on = "fromSeed" =>
          IF calls.seed # 32
          THEN calls.threw = ErrSeed /\ heap = <<>> /\ g = NoRng
          ELSE /\ calls.threw = "" /\ g # NoRng
               /\ Len(heap[g.core.state]) = STATE_WORDS
               /\ Len(heap[g.buffer]) = BUF_WORDS
    /\ calls.on = "ChaChaCore" =>
          IF calls.seed # 32 \/ calls.nonce \notin {8, 12}
          THEN calls.threw \in {ErrSeed, ErrNonce} /\ heap = <<>> /\ c = NoRng
          ELSE /\ calls.threw = "" /\ c # NoRng
               /\ Len(heap[c.core.state]) = STATE_WORDS

\* the 32-byte key with a 16-byte nonce was refused
C18_Witness ==
    /\ calls.on = "ChaChaCore"
    /\ calls.seed = 32 /\ calls.nonce = 16
    /\ calls.threw = ErrNonce
    /\ heap = <<>>

\* C23: a core built from a 12-byte nonce holds the first 4 nonce bytes
\* (little-endian) in state word 12, 0 in state word 13 and the other 8
\* bytes in state words 14..15; built from an 8-byte nonce it holds 0 in
\* words 12..13 and the nonce in words 14..15.
C23_NonceLayout ==
    (calls.on = "ChaChaCore" /\ calls.threw = "") =>
        IF calls.nonce = 12
        THEN /\ heap[c.core.state][12 + 1] = getUint32LE(calls.bytes, 0)
             /\ heap[c.core.state][13 + 1] = W0
             /\ heap[c.core.state][14 + 1] = getUint32LE(calls.bytes, 4)
             /\ heap[c.core.state][15 + 1] = getUint32LE(calls.bytes, 8)
        ELSE /\ heap[c.core.state][12 + 1] = W0
             /\ heap[c.core.state][13 + 1] = W0
             /\ heap[c.core.state][14 + 1] = getUint32LE(calls.bytes, 0)
             /\ heap[c.core.state][15 + 1] = getUint32LE(calls.bytes, 4)

\* test_chacha_true_values_a: expected, expected2
TrueValuesA ==
    <<
       <<47222, 44512>>, <<61856, 36925>>, <<23872, 58730>>, <<34387, 10429>>,
       <<53949, 47129>>, <<36256, 6893>>, <<13992, 52463>>, <<30603, 50957>>,
       <<16858, 31833>>, <<22353, 36168>>, <<9335, 16352>>, <<55480, 14154>>,
       <<17258, 62648>>, <<6165, 7329>>, <<34755, 27062>>, <<61106, 34405>>,
       <<1951, 48871>>, <<20821, 31288>>, <<47768, 31895>>, <<11635, 3336>>,
       <<4043, 41001>>, <<58184, 26981>>, <<50706, 15955>>, <<60978, 60794>>,
       <<46889, 30241>>, <<59036, 17230>>, <<29141, 45107>>, <<55412, 54585>>,
       <<60721, 10271>>, <<2641, 17915>>, <<57772, 7946>>, <<31051, 28493>> >>

\* g was built by ChaCha20Rng(new Uint8Array(32))
IsZeroKey20(H, rng) ==
    /\ rng # NoRng
    /\ rng.rounds = 20
    /\ getSeed(H, rng) = ZeroBytes(32)
    /\ getStream(H, rng) = <<>>

\* C19: the n-th nextU32() call, n = 1..32, on the 20-round generator of
\* the all-zero key and nonce returns the n-th word of the reference
\* vector (the two blocks of test_chacha_true_values_a).
C19_KnownAnswerVector ==
    (/\ IsZeroKey20(heap, g)
     /\ calls.on = "nextU32" /\ ~calls.rewound
     /\ calls.n <= Len(TrueValuesA))
        => calls.val = TrueValuesA[calls.n]

\* the 32nd call returned 0x6f4d794b
C19_Witness ==
    /\ IsZeroKey20(heap, g)
    /\ calls.on = "nextU32" /\ ~calls.rewound
    /\ calls.n = 32
    /\ calls.val = <<31051, 28493>>

\* C20: a generator just constructed has cursor 64, block counter 0 and an
\* all-zero buffer and reports getWordPos() = 0; after its first nextU32()
\* it reports 1; after setWordPos(0) it reports 0.
C20_WordPosZero ==
    /\ (calls.on = "fromSeed" /\ calls.threw = "") =>
          /\ g.index = BUF_WORDS
          /\ getBlockPos(heap, g.core) = <<>>
          /\ heap[g.buffer] = Zeros(BUF_WORDS)
          /\ getWordPos(heap, g) = <<>>
    /\ (calls.on = "nextU32" /\ calls.n = 1 /\ ~calls.rewound) =>
          getWordPos(heap, g) = <<1>>
    /\ calls.on = "setWordPos" => getWordPos(heap, g) = <<>>

\* setWordPos(0) after exactly one nextU32(): the buffer holds blocks 0..3
\* and the cursor is at its start
C20_Witness ==
    /\ calls.on = "setWordPos" /\ calls.after = 1
    /\ g.index = 0
    /\ getBlockPos(heap, g.core) = <<BUF_BLOCKS>>
    /\ getWordPos(heap, g) = <<>>

---------------------------------------------------------------------------
(* The block counter: the core of a generator and its buffer, with          *)
(* setBlockPos and generate called on them as setWordPos and refill do      *)

MaxGenerates == 2

\* low and high counter words around 0 and around the 32-bit overflow
CounterLows ==
    {W0, W1, <<65531, 65535>>, <<65532, 65535>>, <<65533, 65535>>,
     <<65534, 65535>>, <<65535, 65535>>}
CounterHighs == {W0, W1, <<65534, 65535>>, <<65535, 65535>>}
BlockPositions == {Norm(lo \o hi) : lo \in CounterLows, hi \in CounterHighs}

CoreInit ==
    /\ heap = fromSeed(<<>>, SeedA, 8).heap
    /\ g = fromSeed(<<>>, SeedA, 8).rng
    /\ c = NoRng
    /\ calls = NoCalls

\* this.core.setBlockPos(value)
CoreSetBlockPos ==
    \E value \in BlockPositions :
        /\ heap' = setBlockPos(heap, g.core, value)
        /\ calls' = [n |-> calls.n, on |-> "setBlockPos", value |-> value]
        /\ UNCHANGED <<g, c>>

\* this.core.generate(this.buffer)
CoreGenerate ==
    /\ calls.n < MaxGenerates
    /\ heap' = generate(heap, g.core, g.buffer).heap
    /\ calls' = [n |-> calls.n + 1, on |-> "generate",
                 before |-> heap[g.core.state]]
    /\ UNCHANGED <<g, c>>

CoreNext == CoreSetBlockPos \/ CoreGenerate

SpecCore == CoreInit /\ [][CoreNext]_vars

\* the 64-bit value of the counter words 12 (low) and 13 (high) of st
CounterOf(st) == Norm(st[12 + 1] \o st[13 + 1])

\* C21: generate leaves in state words 12 and 13 the low and high word of
\* (counter before + 4) mod 2^64, wherever in the four blocks the low word
\* overflows, and leaves the other 14 state words alone.
C21_GenerateAdvancesCounterBy4 ==
    calls.on = "generate" =>
        /\ heap[g.core.state][12 + 1]
             = Low32(And64(BigAdd(CounterOf(calls.before), <<BUF_BLOCKS>>)))
        /\ heap[g.core.state][13 + 1]
             = Low32(Shr32(And64(BigAdd(CounterOf(calls.before), <<BUF_BLOCKS>>))))
        /\ \A i \in 1..12 \cup {15, 16} : heap[g.core.state][i] = calls.before[i]

\* from 2^32 - 2 the low word overflows after the second block: words 12
\* and 13 become 2 and 1
C21_Witness ==
    /\ calls.on = "generate"
    /\ calls.before[12 + 1] = <<65534, 65535>> /\ calls.before[13 + 1] = W0
    /\ heap[g.core.state][12 + 1] = <<2, 0>>
    /\ heap[g.core.state][13 + 1] = W1

---------------------------------------------------------------------------
(* genRangeU32 over arbitrary keystream words *)

MaxU32Calls == 1

\* the words around floor(2^32 / range) * range for the ranges 12288
\* (0xFFFFF000), 13 (0xFFFFFFF7) and 3 (0xFFFFFFFF)
U32Draws ==
    {<<61439, 65535>>, <<61440, 65535>>, <<65526, 65535>>, <<65527, 65535>>,
     <<65535, 65535>>}

\* ranges of 3, 13, 12288 and 647 values, one of 8, and an empty one
U32Args ==
    {<<0, 3>>, <<3, 16>>, <<0, 12288>>, <<2147483000, 2147483647>>, <<0, 8>>, <<7, 7>>}

\* the four unread words of the buffer are taken arbitrary
U32Init ==
    /\ \E w1 \in U32Draws, w2 \in U32Draws, w3 \in U32Draws,
          w4 \in {<<61439, 65535>>, <<65535, 65535>>} :
          /\ heap = withDraws(fromSeed(<<>>, SeedA, 8), <<w1, w2>>, <<w3, w4>>).heap
          /\ g = withDraws(fromSeed(<<>>, SeedA, 8), <<w1, w2>>, <<w3, w4>>).rng
    /\ c = NoRng
    /\ calls = NoCalls

\* genRangeU32(a[1], a[2]) returned or threw r
RangedU32(a, r) ==
    /\ heap' = r.heap
    /\ g' = r.rng
    /\ c' = c
    /\ calls' = [n |-> calls.n + 1, on |-> "genRangeU32", low |-> a[1],
                 high |-> a[2], threw |-> r.threw, val |-> r.val]

RangeU32 ==
    /\ calls.n < MaxU32Calls
    /\ \E a \in U32Args : RangedU32(a, genRangeU32(heap, g, a[1], a[2]))

U32Next == RangeU32

SpecU32 == U32Init /\ [][U32Next]_vars

\* floor(2^32 / range) * range
Threshold(range) == BigMulSmall(BigDivSmall(<<0, 0, 1>>, range), range)

\* the index of the first word of ws, from i on, that is below limit
RECURSIVE firstBelow(_, _, _)
firstBelow(ws, i, limit) ==
    IF BigLess(BigOfWord(ws[i]), limit) THEN i ELSE firstBelow(ws, i + 1, limit)

\* a genRangeU32(low, high) call when the words to come are ws: it returned
\* v and moved the position from p to q
rejectRule(ws, low, high, p, q, v) ==
    /\ rangeLimitOf(high - low) = Threshold(high - low)
    /\ q = Advance(p, firstBelow(ws, 1, Threshold(high - low)))
    /\ NatOfBig(BigOfWord(v))
          = low + BigModSmall(BigOfWord(ws[firstBelow(ws, 1, Threshold(high - low))]),
                              high - low)
    /\ low <= NatOfBig(BigOfWord(v)) /\ NatOfBig(BigOfWord(v)) < high

\* C25: genRangeU32(low, high) with high - low not a power of two consumes
\* the drawn words up to and including the first one below
\* floor(2^32 / range) * range, which is the limit the code computes, and
\* returns low + (that word mod range), a value of [low, high).
C25_RejectionSampling ==
    [][(/\ calls'.on = "genRangeU32" /\ calls'.threw = ""
        /\ ~IsPowerOfTwo(calls'.high - calls'.low))
          => rejectRule(NextWords(heap, g, 5).val, calls'.low, calls'.high,
                        getWordPos(heap, g), getWordPos(heap', g'), calls'.val)]_vars

\* [3, 16): the words 0xFFFFFFF7 and 0xFFFFFFFF are discarded and the third
\* word, 0xFFFFFFF6 = 13 * 330382098 + 12, gives 3 + 12
C25_Witness ==
    /\ calls.on = "genRangeU32"
    /\ calls.low = 3 /\ calls.high = 16
    /\ heap[g.buffer][DrawAt + 1] = <<65527, 65535>>
    /\ heap[g.buffer][DrawAt + 2] = <<65535, 65535>>
    /\ heap[g.buffer][DrawAt + 3] = <<65526, 65535>>
    /\ g.index = DrawAt + 3
    /\ calls.val = <<15, 0>>

====
